---- MODULE Spec2Model ----
(***************************************************************************)
(* Model of InMemoryTickerMetadataStorage                                  *)
(* (src/lib/analysis/metadata-storage.ts): the per-(symbol, key) metadata  *)
(* cache with refresh intervals and a bounded history.                     *)
(*                                                                         *)
(* A JavaScript Map is a function whose DOMAIN is the set of keys that     *)
(* were set.  A value that may be null is a sequence of length 0 or 1.     *)
(* A symbol is the tuple of its characters, so that toUpperCase is         *)
(* computed character by character.                                        *)
(***************************************************************************)
EXTENDS Integers, Sequences, FiniteSets, TLC

VARIABLES
    globalIntervalMs,   \* InMemoryTickerMetadataStorage.globalIntervalMs
    tickers,            \* InMemoryTickerMetadataStorage.tickers : normalized symbol -> TickerState
    computeCalls,       \* how often the caller's compute function was invoked (the tests' `count`)
    ret,                \* the last call: [op, args, out]
    log,                \* the calls made so far by a scenario driver (empty under Spec)
    heap,               \* the objects allocated so far, by identity (used where aliasing matters)
    held,               \* the references a caller has been handed: [id, from], from being
                        \* "record" (getLatest, getOrCompute, upsert), "getHistory" or "dump"
    pending,            \* the getOrComputeAsync calls suspended at `await compute()`
    twin,               \* a second store instance driven in step with the first: << >>, or
                        \* <<[globalIntervalMs, tickers, out]>> (used under SpecTwin)
    watchlists          \* trading.ts: the Watchlist[] the dashboard holds (used under SpecAlerts)

vars == <<globalIntervalMs, tickers, computeCalls, ret, log, heap, held, pending, twin, watchlists>>

\* what a synchronous call on the store by value leaves alone
refs == <<heap, held, pending, twin, watchlists>>

----------------------------------------------------------------------------
(* Program constants *)

\* metadata-storage.ts:30,39  Math.max(1000, intervalMs)
MinIntervalMs == 1000

\* metadata-storage.ts:82  history.slice(-200)
HistoryWindow == 200

\* metadata-storage.ts:25  constructor(globalIntervalMs = 15 * 60 * 1000)
DefaultGlobalIntervalMs == 900000

----------------------------------------------------------------------------
(* Bounds of the model *)

\* history entries plus interval overrides the store holds under Spec
MaxChanges == 2

\* number of upserts of the long-running writer (SpecLong); beyond HistoryWindow
MaxLongWrites == 203

\* number of getOrCompute calls of the polling caller (SpecPoll)
MaxPolls == 5

----------------------------------------------------------------------------
(* Inputs *)

RawSymbols == { <<"a","a","p","l">>, <<"M","S","F","T">> }

Keys == { "sentiment", "target-consensus" }

\* caller-supplied now / computedAt
Times == { 0, 999, 1000 }

\* caller-supplied intervalMs of the two setters
IntervalArgs == { 999, 1000, 2000 }

\* constructor argument: below the floor, above it, and the default
ConstructorArgs == { 500, 2000, DefaultGlobalIntervalMs }

\* value passed to upsert by a direct caller
Payloads == { 70 }

----------------------------------------------------------------------------
(* Helpers for Map and Array *)

EmptyMap == [x \in {} |-> 0]

MapSet(m, k, v) == [x \in (DOMAIN m) \cup {k} |-> IF x = k THEN v ELSE m[x]]

Max(a, b) == IF a >= b THEN a ELSE b

\* Array.prototype.slice(0, n): keeps the oldest entries
SliceFirst(s, n) == IF Len(s) <= n THEN s ELSE SubSeq(s, 1, n)

\* Array.prototype.slice(-n)
SliceLast(s, n) == IF Len(s) <= n THEN s ELSE SubSeq(s, Len(s) - n + 1, Len(s))

\* String.prototype.toUpperCase on one character
UpperChar(c) ==
    CASE c = "a" -> "A"
      [] c = "p" -> "P"
      [] c = "l" -> "L"
      [] c = "m" -> "M"
      [] c = "s" -> "S"
      [] c = "f" -> "F"
      [] c = "t" -> "T"
      [] OTHER -> c

\* no normalization: the symbol is used as the caller spelled it
ToUpperCaseAsSpelled(symbol) == symbol

ToUpperCase(symbol) == [i \in 1..Len(symbol) |-> UpperChar(symbol[i])]

----------------------------------------------------------------------------
(* The store's methods as functions of the store's fields *)

NewTickerState == [latest |-> EmptyMap, history |-> EmptyMap, intervals |-> EmptyMap]

\* ensureTickerState: the tickers map after the call
EnsureTickerState(tk, symbol) ==
    IF ToUpperCase(symbol) \in DOMAIN tk
    THEN tk
    ELSE MapSet(tk, ToUpperCase(symbol), NewTickerState)

\* ensureTickerState: the state it returns
TickerStateOf(tk, symbol) == EnsureTickerState(tk, symbol)[ToUpperCase(symbol)]

\* getLatest that falls back to a record of another key of the same symbol
LatestOfAnyKey(tk, symbol, key) ==
    IF key \in DOMAIN TickerStateOf(tk, symbol).latest
    THEN << TickerStateOf(tk, symbol).latest[key] >>
    ELSE IF DOMAIN TickerStateOf(tk, symbol).latest # {}
         THEN << TickerStateOf(tk, symbol).latest[
                   CHOOSE k \in DOMAIN TickerStateOf(tk, symbol).latest : TRUE] >>
         ELSE << >>

\* getLatest: <<record>> or <<>> for null
LatestOf(tk, symbol, key) ==
    IF key \in DOMAIN TickerStateOf(tk, symbol).latest
    THEN << TickerStateOf(tk, symbol).latest[key] >>
    ELSE << >>

\* getHistory: the copied array
HistoryOf(tk, symbol, key) ==
    IF key \in DOMAIN TickerStateOf(tk, symbol).history
    THEN TickerStateOf(tk, symbol).history[key]
    ELSE << >>

Min(a, b) == IF a <= b THEN a ELSE b

\* the clamp with Math.min for Math.max
ClampIntervalMin(intervalMs) == Min(MinIntervalMs, intervalMs)

\* setGlobalRefreshInterval / setTickerRefreshInterval: the stored interval
ClampInterval(intervalMs) == Max(MinIntervalMs, intervalMs)

\* getRefreshInterval that lets the shorter of override and global default win
RefreshIntervalOfShortest(tk, g, symbol, key) ==
    IF key \in DOMAIN TickerStateOf(tk, symbol).intervals
    THEN Min(TickerStateOf(tk, symbol).intervals[key], g)
    ELSE g

\* getRefreshInterval
RefreshIntervalOf(tk, g, symbol, key) ==
    IF key \in DOMAIN TickerStateOf(tk, symbol).intervals
    THEN TickerStateOf(tk, symbol).intervals[key]
    ELSE g

\* shouldRefresh with an exclusive boundary (`>` for `>=`)
ShouldRefreshOfExclusive(tk, g, symbol, key, now) ==
    IF LatestOf(tk, symbol, key) = << >>
    THEN TRUE
    ELSE now - LatestOf(tk, symbol, key)[1].computedAt > RefreshIntervalOf(tk, g, symbol, key)

\* shouldRefresh
ShouldRefreshOf(tk, g, symbol, key, now) ==
    IF LatestOf(tk, symbol, key) = << >>
    THEN TRUE
    ELSE now - LatestOf(tk, symbol, key)[1].computedAt >= RefreshIntervalOf(tk, g, symbol, key)

\* upsert: the record written as latest
LatestRecord(key, value, computedAt) ==
    [key |-> key, value |-> value, computedAt |-> computedAt]

\* upsert: the history entry pushed
HistoryRecord(key, value, computedAt, history) ==
    [key |-> key, value |-> value, computedAt |-> computedAt, version |-> Len(history) + 1]

\* upsert with unshift for push: the new entry goes to the front
PushHistoryUnshift(history, key, value, computedAt) ==
    SliceLast(<< HistoryRecord(key, value, computedAt, history) >> \o history, HistoryWindow)

\* upsert: the history array stored
PushHistory(history, key, value, computedAt) ==
    SliceLast(Append(history, HistoryRecord(key, value, computedAt, history)), HistoryWindow)

\* upsert that keeps the stored record when computedAt is older than it
UpsertStoreIfNewer(tk, symbol, key, value, computedAt) ==
    LET ensured == EnsureTickerState(tk, symbol)
        state   == ensured[ToUpperCase(symbol)]
    IN  IF key \in DOMAIN state.latest /\ computedAt < state.latest[key].computedAt
        THEN ensured
        ELSE MapSet(ensured, ToUpperCase(symbol),
                    [ latest    |-> MapSet(state.latest, key, LatestRecord(key, value, computedAt)),
                      history   |-> MapSet(state.history, key,
                                           PushHistory(HistoryOf(tk, symbol, key), key, value, computedAt)),
                      intervals |-> state.intervals ])

\* upsert: the tickers map after the call
UpsertStore(tk, symbol, key, value, computedAt) ==
    LET ensured == EnsureTickerState(tk, symbol)
        state   == ensured[ToUpperCase(symbol)]
    IN  MapSet(ensured, ToUpperCase(symbol),
               [ latest    |-> MapSet(state.latest, key, LatestRecord(key, value, computedAt)),
                 history   |-> MapSet(state.history, key,
                                      PushHistory(HistoryOf(tk, symbol, key), key, value, computedAt)),
                 intervals |-> state.intervals ])

\* dump: one entry per ticker, with the global interval
DumpOf(tk, g) ==
    [ symbol \in DOMAIN tk |->
        [ symbol |-> symbol, globalIntervalMs |-> g,
          intervals |-> tk[symbol].intervals,
          latest |-> tk[symbol].latest,
          history |-> tk[symbol].history ] ]

----------------------------------------------------------------------------
(* Measures used by the guards that bound the model *)

RECURSIVE SumOver(_, _)
SumOver(f, S) ==
    IF S = {} THEN 0
    ELSE LET x == CHOOSE y \in S : TRUE IN f[x] + SumOver(f, S \ {x})

\* number of history entries held by one ticker state
EntriesOfState(state) ==
    SumOver([k \in DOMAIN state.history |-> Len(state.history[k])], DOMAIN state.history)

\* number of history entries held by the store
TotalEntries(tk) == SumOver([s \in DOMAIN tk |-> EntriesOfState(tk[s])], DOMAIN tk)

\* number of interval overrides held by the store
TotalOverrides(tk) ==
    SumOver([s \in DOMAIN tk |-> Cardinality(DOMAIN tk[s].intervals)], DOMAIN tk)

HasOverride(tk, symbol, key) ==
    /\ ToUpperCase(symbol) \in DOMAIN tk
    /\ key \in DOMAIN tk[ToUpperCase(symbol)].intervals

----------------------------------------------------------------------------
(* Construction *)

Call(op, args, out) == [op |-> op, args |-> args, out |-> out]

\* constructor
Init ==
    /\ globalIntervalMs \in ConstructorArgs
    /\ tickers = EmptyMap
    /\ computeCalls = 0
    /\ ret = Call("new", << >>, << >>)
    /\ log = << >>
    /\ heap = << >>
    /\ held = {}
    /\ pending = << >>
    /\ twin = << >>
    /\ watchlists = << >>

----------------------------------------------------------------------------
(* The store's methods as actions *)

\* setGlobalRefreshInterval that resets every per-key override
SetGlobalRefreshIntervalDropsOverrides(intervalMs) ==
    /\ globalIntervalMs' = ClampInterval(intervalMs)
    /\ tickers' = [symbol \in DOMAIN tickers |-> [tickers[symbol] EXCEPT !.intervals = EmptyMap]]
    /\ ret' = Call("setGlobalRefreshInterval", <<intervalMs>>, << >>)
    /\ UNCHANGED computeCalls

SetGlobalRefreshInterval(intervalMs) ==
    /\ globalIntervalMs' = ClampInterval(intervalMs)
    /\ ret' = Call("setGlobalRefreshInterval", <<intervalMs>>, << >>)
    /\ UNCHANGED <<tickers, computeCalls>>

GetGlobalRefreshInterval ==
    /\ ret' = Call("getGlobalRefreshInterval", << >>, <<globalIntervalMs>>)
    /\ UNCHANGED <<globalIntervalMs, tickers, computeCalls>>

\* setTickerRefreshInterval that overrides every key the symbol has a record for
SetTickerRefreshIntervalAllKeys(symbol, key, intervalMs) ==
    /\ tickers' =
         MapSet(EnsureTickerState(tickers, symbol), ToUpperCase(symbol),
                [ TickerStateOf(tickers, symbol) EXCEPT
                    !.intervals =
                       [ k \in DOMAIN @ \cup { key } \cup DOMAIN TickerStateOf(tickers, symbol).latest
                           |-> ClampInterval(intervalMs) ] ])
    /\ ret' = Call("setTickerRefreshInterval", <<symbol, key, intervalMs>>, << >>)
    /\ UNCHANGED <<globalIntervalMs, computeCalls>>

SetTickerRefreshInterval(symbol, key, intervalMs) ==
    /\ tickers' =
         MapSet(EnsureTickerState(tickers, symbol), ToUpperCase(symbol),
                [ TickerStateOf(tickers, symbol) EXCEPT
                    !.intervals = MapSet(@, key, ClampInterval(intervalMs)) ])
    /\ ret' = Call("setTickerRefreshInterval", <<symbol, key, intervalMs>>, << >>)
    /\ UNCHANGED <<globalIntervalMs, computeCalls>>

GetRefreshInterval(symbol, key) ==
    /\ tickers' = EnsureTickerState(tickers, symbol)
    /\ ret' = Call("getRefreshInterval", <<symbol, key>>,
                   << RefreshIntervalOf(tickers, globalIntervalMs, symbol, key) >>)
    /\ UNCHANGED <<globalIntervalMs, computeCalls>>

GetLatest(symbol, key) ==
    /\ tickers' = EnsureTickerState(tickers, symbol)
    /\ ret' = Call("getLatest", <<symbol, key>>, LatestOf(tickers, symbol, key))
    /\ UNCHANGED <<globalIntervalMs, computeCalls>>

GetHistory(symbol, key) ==
    /\ tickers' = EnsureTickerState(tickers, symbol)
    /\ ret' = Call("getHistory", <<symbol, key>>, << HistoryOf(tickers, symbol, key) >>)
    /\ UNCHANGED <<globalIntervalMs, computeCalls>>

ShouldRefresh(symbol, key, now) ==
    /\ tickers' = EnsureTickerState(tickers, symbol)
    /\ ret' = Call("shouldRefresh", <<symbol, key, now>>,
                   << ShouldRefreshOf(tickers, globalIntervalMs, symbol, key, now) >>)
    /\ UNCHANGED <<globalIntervalMs, computeCalls>>

Upsert(symbol, key, value, computedAt) ==
    /\ tickers' = UpsertStore(tickers, symbol, key, value, computedAt)
    /\ ret' = Call("upsert", <<symbol, key, value, computedAt>>,
                   << LatestRecord(key, value, computedAt) >>)
    /\ UNCHANGED <<globalIntervalMs, computeCalls>>

\* the caller's compute function: `() => ({ v: ++count })`
ComputeValue(calls) == calls + 1

\* getOrCompute without the shouldRefresh test: recomputes on every call
GetOrComputeAlways(symbol, key, now) ==
    /\ computeCalls' = computeCalls + 1
    /\ tickers' = UpsertStore(tickers, symbol, key, ComputeValue(computeCalls), now)
    /\ ret' = Call("getOrCompute", <<symbol, key, now>>,
                   << LatestRecord(key, ComputeValue(computeCalls), now) >>)
    /\ UNCHANGED globalIntervalMs

\* getOrCompute with a sliding expiry: a cache hit re-stamps the record with now
GetOrComputeSliding(symbol, key, now) ==
    IF ~ShouldRefreshOf(tickers, globalIntervalMs, symbol, key, now)
    THEN /\ tickers' =
              MapSet(tickers, ToUpperCase(symbol),
                     [ TickerStateOf(tickers, symbol) EXCEPT
                         !.latest = MapSet(@, key, [ @[key] EXCEPT !.computedAt = now ]) ])
         /\ ret' = Call("getOrCompute", <<symbol, key, now>>,
                        << [ LatestOf(tickers, symbol, key)[1] EXCEPT !.computedAt = now ] >>)
         /\ UNCHANGED <<globalIntervalMs, computeCalls>>
    ELSE /\ computeCalls' = computeCalls + 1
         /\ tickers' = UpsertStore(tickers, symbol, key, ComputeValue(computeCalls), now)
         /\ ret' = Call("getOrCompute", <<symbol, key, now>>,
                        << LatestRecord(key, ComputeValue(computeCalls), now) >>)
         /\ UNCHANGED globalIntervalMs

GetOrCompute(symbol, key, now) ==
    IF ~ShouldRefreshOf(tickers, globalIntervalMs, symbol, key, now)
    THEN /\ tickers' = EnsureTickerState(tickers, symbol)
         /\ ret' = Call("getOrCompute", <<symbol, key, now>>, LatestOf(tickers, symbol, key))
         /\ UNCHANGED <<globalIntervalMs, computeCalls>>
    ELSE /\ computeCalls' = computeCalls + 1
         /\ tickers' = UpsertStore(tickers, symbol, key, ComputeValue(computeCalls), now)
         /\ ret' = Call("getOrCompute", <<symbol, key, now>>,
                        << LatestRecord(key, ComputeValue(computeCalls), now) >>)
         /\ UNCHANGED globalIntervalMs

Dump ==
    /\ ret' = Call("dump", << >>, << DumpOf(tickers, globalIntervalMs) >>)
    /\ UNCHANGED <<globalIntervalMs, tickers, computeCalls>>

----------------------------------------------------------------------------
(* Spec: any caller, any order of calls *)

CanChange == TotalEntries(tickers) + TotalOverrides(tickers) < MaxChanges

CanWrite == CanChange

CanOverride(symbol, key) == HasOverride(tickers, symbol, key) \/ CanChange

AnySetGlobalRefreshInterval ==
    /\ \E ms \in IntervalArgs : SetGlobalRefreshInterval(ms)
    /\ UNCHANGED <<log, refs>>

AnyGetGlobalRefreshInterval ==
    /\ GetGlobalRefreshInterval
    /\ UNCHANGED <<log, refs>>

AnySetTickerRefreshInterval ==
    /\ \E s \in RawSymbols, k \in Keys, ms \in IntervalArgs :
         CanOverride(s, k) /\ SetTickerRefreshInterval(s, k, ms)
    /\ UNCHANGED <<log, refs>>

AnyGetRefreshInterval ==
    /\ \E s \in RawSymbols, k \in Keys : GetRefreshInterval(s, k)
    /\ UNCHANGED <<log, refs>>

AnyGetLatest ==
    /\ \E s \in RawSymbols, k \in Keys : GetLatest(s, k)
    /\ UNCHANGED <<log, refs>>

AnyGetHistory ==
    /\ \E s \in RawSymbols, k \in Keys : GetHistory(s, k)
    /\ UNCHANGED <<log, refs>>

AnyShouldRefresh ==
    /\ \E s \in RawSymbols, k \in Keys, now \in Times : ShouldRefresh(s, k, now)
    /\ UNCHANGED <<log, refs>>

AnyUpsert ==
    /\ CanWrite
    /\ \E s \in RawSymbols, k \in Keys, v \in Payloads, t \in Times : Upsert(s, k, v, t)
    /\ UNCHANGED <<log, refs>>

AnyGetOrCompute ==
    /\ \E s \in RawSymbols, k \in Keys, now \in Times :
         /\ ShouldRefreshOf(tickers, globalIntervalMs, s, k, now) => CanWrite
         /\ GetOrCompute(s, k, now)
    /\ UNCHANGED <<log, refs>>

AnyDump ==
    /\ Dump
    /\ UNCHANGED <<log, refs>>

Next ==
    \/ AnySetGlobalRefreshInterval
    \/ AnyGetGlobalRefreshInterval
    \/ AnySetTickerRefreshInterval
    \/ AnyGetRefreshInterval
    \/ AnyGetLatest
    \/ AnyGetHistory
    \/ AnyShouldRefresh
    \/ AnyUpsert
    \/ AnyGetOrCompute
    \/ AnyDump

Spec == Init /\ [][Next]_vars

----------------------------------------------------------------------------
(* SpecLong: one writer that upserts one slot more often than the history  *)
(* window holds, and reads the history back                                *)

LongSymbol == <<"M","S","F","T">>

LongKey == "target-consensus"

\* the n-th value written (n = 0, 1, ...): all different
LongValue(n) == n + 1

\* the n-th computedAt: not monotonic
LongTime(n) == (n % 3) * 1000

LongWrite ==
    /\ Len(log) < MaxLongWrites
    /\ Upsert(LongSymbol, LongKey, LongValue(Len(log)), LongTime(Len(log)))
    /\ log' = Append(log, [value |-> LongValue(Len(log)), computedAt |-> LongTime(Len(log))])
    /\ UNCHANGED refs

LongRead ==
    /\ GetHistory(LongSymbol, LongKey)
    /\ UNCHANGED <<log, refs>>

NextLong == LongWrite \/ LongRead

SpecLong == Init /\ [][NextLong]_vars

----------------------------------------------------------------------------
(* SpecPoll: one caller that polls one slot with getOrCompute at           *)
(* non-decreasing times; the interval is fixed before the first call       *)

PollSymbol == <<"a","a","p","l">>

PollKey == "sentiment"

PollTimes == { 0, 499, 500, 1000, 1999, 2000, 2500 }

PollConfigure(intervalMs) ==
    /\ log = << >>
    /\ SetTickerRefreshInterval(PollSymbol, PollKey, intervalMs)
    /\ UNCHANGED <<log, refs>>

PollCall(now) ==
    /\ Len(log) < MaxPolls
    /\ IF log = << >> THEN TRUE ELSE now >= log[Len(log)].now
    /\ GetOrCompute(PollSymbol, PollKey, now)
    /\ log' = Append(log, [ now |-> now,
                            invoked |-> computeCalls' - computeCalls,
                            out |-> ret'.out ])
    /\ UNCHANGED refs

NextPoll ==
    \/ \E ms \in IntervalArgs : PollConfigure(ms)
    \/ \E now \in PollTimes : PollCall(now)

SpecPoll == Init /\ [][NextPoll]_vars

----------------------------------------------------------------------------
(* Observations of the store's fields, used to state the properties        *)

Slots == RawSymbols \X Keys

\* the latest record of a slot as held in the tickers map: <<record>> or <<>>
SlotLatest(tk, symbol, key) ==
    IF ToUpperCase(symbol) \in DOMAIN tk /\ key \in DOMAIN tk[ToUpperCase(symbol)].latest
    THEN << tk[ToUpperCase(symbol)].latest[key] >>
    ELSE << >>

\* the history of a slot as held in the tickers map
SlotHistory(tk, symbol, key) ==
    IF ToUpperCase(symbol) \in DOMAIN tk /\ key \in DOMAIN tk[ToUpperCase(symbol)].history
    THEN tk[ToUpperCase(symbol)].history[key]
    ELSE << >>

\* the interval override of a slot as held in the tickers map: <<ms>> or <<>>
SlotOverride(tk, symbol, key) ==
    IF ToUpperCase(symbol) \in DOMAIN tk /\ key \in DOMAIN tk[ToUpperCase(symbol)].intervals
    THEN << tk[ToUpperCase(symbol)].intervals[key] >>
    ELSE << >>

\* the effective interval of a slot: the override if set, else the global default
EffectiveInterval(tk, g, symbol, key) ==
    IF SlotOverride(tk, symbol, key) # << >> THEN SlotOverride(tk, symbol, key)[1] ELSE g

\* a written slot whose age at `now` is below its effective interval
IsFresh(tk, g, symbol, key, now) ==
    /\ SlotLatest(tk, symbol, key) # << >>
    /\ now - SlotLatest(tk, symbol, key)[1].computedAt < EffectiveInterval(tk, g, symbol, key)

----------------------------------------------------------------------------
(* C1: shouldRefresh(symbol, key, now) is true if and only if the slot has *)
(* no latest record or now - latest.computedAt >= the slot's effective     *)
(* interval.  The boundary is inclusive: for every written slot the answer *)
(* at computedAt + interval is true and one millisecond earlier is false.  *)
C1_ShouldRefreshIffEmptyOrElapsed ==
    /\ ret.op = "shouldRefresh" =>
         LET symbol == ret.args[1]
             key    == ret.args[2]
             now    == ret.args[3]
         IN  ret.out[1] <=>
               \/ SlotLatest(tickers, symbol, key) = << >>
               \/ now - SlotLatest(tickers, symbol, key)[1].computedAt
                    >= EffectiveInterval(tickers, globalIntervalMs, symbol, key)
    /\ \A slot \in Slots :
         SlotLatest(tickers, slot[1], slot[2]) # << >> =>
           LET due == SlotLatest(tickers, slot[1], slot[2])[1].computedAt
                        + EffectiveInterval(tickers, globalIntervalMs, slot[1], slot[2])
           IN  /\ ShouldRefreshOf(tickers, globalIntervalMs, slot[1], slot[2], due)
               /\ ~ShouldRefreshOf(tickers, globalIntervalMs, slot[1], slot[2], due - 1)

\* shouldRefresh answered true for a written slot whose age equals its interval
C1_Witness ==
    /\ ret.op = "shouldRefresh"
    /\ SlotLatest(tickers, ret.args[1], ret.args[2]) # << >>
    /\ ret.args[3] - SlotLatest(tickers, ret.args[1], ret.args[2])[1].computedAt
         = EffectiveInterval(tickers, globalIntervalMs, ret.args[1], ret.args[2])
    /\ ret.out = << TRUE >>

----------------------------------------------------------------------------
(* C2: when the slot is fresh at now, getOrCompute(symbol, key, compute,   *)
(* now) does not invoke compute, returns the existing latest record, and   *)
(* leaves the slot's latest and history as they were.                      *)
C2_FreshGetOrComputeLeavesSlot ==
    [][ ( /\ ret'.op = "getOrCompute"
          /\ IsFresh(tickers, globalIntervalMs, ret'.args[1], ret'.args[2], ret'.args[3]) )
        => /\ computeCalls' = computeCalls
           /\ ret'.out = SlotLatest(tickers, ret'.args[1], ret'.args[2])
           /\ SlotLatest(tickers', ret'.args[1], ret'.args[2])
                = SlotLatest(tickers, ret'.args[1], ret'.args[2])
           /\ SlotHistory(tickers', ret'.args[1], ret'.args[2])
                = SlotHistory(tickers, ret'.args[1], ret'.args[2])
      ]_vars

\* getOrCompute returned a record that is older than the call's now: a cache hit
C2_Witness ==
    /\ ret.op = "getOrCompute"
    /\ ret.out # << >>
    /\ ret.out[1].computedAt < ret.args[3]
    /\ ret.out = SlotLatest(tickers, ret.args[1], ret.args[2])
    /\ Len(SlotHistory(tickers, ret.args[1], ret.args[2])) = 1

----------------------------------------------------------------------------
PollInterval == EffectiveInterval(tickers, globalIntervalMs, PollSymbol, PollKey)

\* the last call before the i-th that invoked compute; 0 if there is none
LastInvokedBefore(i) ==
    LET S == { j \in 1..(i - 1) : log[j].invoked > 0 }
    IN  IF S = {} THEN 0 ELSE CHOOSE j \in S : \A m \in S : m <= j

PollDue(i) ==
    \/ LastInvokedBefore(i) = 0
    \/ log[i].now - log[LastInvokedBefore(i)].now >= PollInterval

(* C3: in a sequence of getOrCompute calls on one slot with non-decreasing *)
(* now and a fixed effective interval I, compute is invoked at a call      *)
(* exactly when no earlier call invoked it (the slot is empty) or          *)
(* now - (now of the last call that invoked it) >= I, and then once; the   *)
(* record returned then has computedAt = now.  A call in between returns   *)
(* the record of the last computing call unchanged, so the value written   *)
(* at t is stale from exactly t + I on.                                    *)
C3_ComputeExactlyWhenIntervalElapsed ==
    /\ \A i \in 1..Len(log) :
         /\ log[i].invoked = (IF PollDue(i) THEN 1 ELSE 0)
         /\ Len(log[i].out) = 1
         /\ PollDue(i) => log[i].out[1].computedAt = log[i].now
         /\ ~PollDue(i) => log[i].out[1] = log[LastInvokedBefore(i)].out[1]
    /\ computeCalls = Cardinality({ i \in 1..Len(log) : log[i].invoked > 0 })
    /\ Len(log) > 0 =>
         LET t == log[LastInvokedBefore(Len(log) + 1)].now
         IN  /\ SlotLatest(tickers, PollSymbol, PollKey) = log[Len(log)].out
             /\ SlotLatest(tickers, PollSymbol, PollKey)[1].computedAt = t
             /\ ShouldRefreshOf(tickers, globalIntervalMs, PollSymbol, PollKey, t + PollInterval)
             /\ ~ShouldRefreshOf(tickers, globalIntervalMs, PollSymbol, PollKey, t + PollInterval - 1)

\* a computing call, a cache hit after it, and a call exactly one interval after
\* the first that computes again
C3_Witness ==
    /\ Len(log) >= 3
    /\ log[1].invoked = 1
    /\ log[2].invoked = 0
    /\ log[2].now > log[1].now
    /\ log[3].invoked = 1
    /\ log[3].now - log[1].now = PollInterval
    /\ log[3].out[1].value = 2

----------------------------------------------------------------------------
(* C4: for every slot the first write gets version 1 and the versions of   *)
(* the entries returned by getHistory increase by exactly 1 from each      *)
(* entry to the next, also after more writes than the window retains.      *)
C4_VersionsGapless ==
    \A slot \in Slots :
      LET h == SlotHistory(tickers, slot[1], slot[2])
      IN  /\ (Len(h) > 0 /\ Len(h) < HistoryWindow) => h[1].version = 1
          /\ \A i \in 1..(Len(h) - 1) : h[i + 1].version = h[i].version + 1

----------------------------------------------------------------------------
(* C5: getHistory has at most 200 entries; after n upserts to the slot it  *)
(* holds the values of the most recent min(n, 200) upserts in call order.  *)
C5_HistoryHoldsLastWindow ==
    LET h == SlotHistory(tickers, LongSymbol, LongKey)
        n == Len(log)
        m == IF n < HistoryWindow THEN n ELSE HistoryWindow
    IN  /\ Len(h) = m
        /\ \A i \in 1..m : h[i].value = log[n - m + i].value
        /\ ret.op = "getHistory" =>
             /\ Len(ret.out[1]) <= HistoryWindow
             /\ ret.out[1] = h

\* getHistory returned a full window after more upserts than the window holds
C5_Witness ==
    /\ Len(log) > HistoryWindow + 1
    /\ ret.op = "getHistory"
    /\ Len(ret.out[1]) = HistoryWindow
    /\ ret.out[1][1].value = log[Len(log) - HistoryWindow + 1].value

----------------------------------------------------------------------------
(* C6: history is append-only and ordered by call.  An upsert changes the  *)
(* slot's history only by appending one entry at the end and dropping at   *)
(* most one from the front (only when the window is full); every entry     *)
(* still retained keeps its value, version and computedAt; the retained    *)
(* entries are those of the latest upsert calls, in call order.  No other  *)
(* step changes the history.                                               *)
C6_HistoryAppendOnly ==
    [][ LET h  == SlotHistory(tickers, LongSymbol, LongKey)
            h2 == SlotHistory(tickers', LongSymbol, LongKey)
            d  == Len(h) + 1 - Len(h2)
            n2 == Len(log')
        IN  IF ret'.op = "upsert"
            THEN /\ d \in {0, 1}
                 /\ d = 1 <=> Len(h) = HistoryWindow
                 /\ \A i \in 1..(Len(h2) - 1) : h2[i] = h[i + d]
                 /\ h2[Len(h2)].value = ret'.args[3]
                 /\ h2[Len(h2)].computedAt = ret'.args[4]
                 /\ \A i \in 1..Len(h2) :
                      /\ h2[i].value = log'[n2 - Len(h2) + i].value
                      /\ h2[i].computedAt = log'[n2 - Len(h2) + i].computedAt
            ELSE h2 = h
      ]_vars

\* two entries were dropped from the front; the oldest retained entry is the
\* third upsert's, with the version it was written with
C6_Witness ==
    /\ Len(log) = HistoryWindow + 2
    /\ ret.op = "upsert"
    /\ LET h == SlotHistory(tickers, LongSymbol, LongKey)
       IN  /\ Len(h) = HistoryWindow
           /\ h[1].value = log[3].value
           /\ h[1].computedAt = log[3].computedAt
           /\ h[1].version = 3

----------------------------------------------------------------------------
(* C7: upsert(symbol, key, value, computedAt) performs no staleness check: *)
(* whatever the slot holds and whatever computedAt is, latest becomes      *)
(* {key, value, computedAt}, that record is returned, and exactly one      *)
(* history entry, carrying that value and computedAt, is appended.         *)
C7_UpsertAlwaysWrites ==
    [][ ret'.op = "upsert" =>
          LET symbol == ret'.args[1]
              key    == ret'.args[2]
              rec    == [key |-> key, value |-> ret'.args[3], computedAt |-> ret'.args[4]]
              h      == SlotHistory(tickers, symbol, key)
              h2     == SlotHistory(tickers', symbol, key)
          IN  /\ SlotLatest(tickers', symbol, key) = << rec >>
              /\ ret'.out = << rec >>
              /\ Len(h) < HistoryWindow => Len(h2) = Len(h) + 1
              /\ Len(h2) > 0
              /\ h2[Len(h2)].key = key
              /\ h2[Len(h2)].value = rec.value
              /\ h2[Len(h2)].computedAt = rec.computedAt
              /\ Len(h) < HistoryWindow => SubSeq(h2, 1, Len(h2) - 1) = h
      ]_vars

\* an upsert with a computedAt older than the record it replaced
C7_Witness ==
    /\ ret.op = "upsert"
    /\ LET h == SlotHistory(tickers, ret.args[1], ret.args[2])
       IN  /\ Len(h) = 2
           /\ h[2].computedAt < h[1].computedAt
           /\ ret.args[4] = h[2].computedAt
           /\ SlotLatest(tickers, ret.args[1], ret.args[2])[1].computedAt = h[2].computedAt

----------------------------------------------------------------------------
ClampedTo1000(ms) == IF ms < 1000 THEN 1000 ELSE ms

(* C8: for every ms < 1000 passed to setGlobalRefreshInterval or           *)
(* setTickerRefreshInterval the interval stored, and returned by the next  *)
(* getGlobalRefreshInterval / getRefreshInterval, is exactly 1000; for     *)
(* ms >= 1000 it is exactly ms.                                            *)
C8_SettersClampTo1000 ==
    [][ /\ ret'.op = "setGlobalRefreshInterval" =>
             globalIntervalMs' = ClampedTo1000(ret'.args[1])
        /\ ret'.op = "setTickerRefreshInterval" =>
             SlotOverride(tickers', ret'.args[1], ret'.args[2]) = << ClampedTo1000(ret'.args[3]) >>
        /\ (ret.op = "setGlobalRefreshInterval" /\ ret'.op = "getGlobalRefreshInterval") =>
             ret'.out = << ClampedTo1000(ret.args[1]) >>
        /\ ( /\ ret.op = "setGlobalRefreshInterval"
             /\ ret'.op = "getRefreshInterval"
             /\ SlotOverride(tickers, ret'.args[1], ret'.args[2]) = << >> ) =>
             ret'.out = << ClampedTo1000(ret.args[1]) >>
        /\ ( /\ ret.op = "setTickerRefreshInterval"
             /\ ret'.op = "getRefreshInterval"
             /\ ToUpperCase(ret'.args[1]) = ToUpperCase(ret.args[1])
             /\ ret'.args[2] = ret.args[2] ) =>
             ret'.out = << ClampedTo1000(ret.args[3]) >>
      ]_vars

\* setTickerRefreshInterval was called with less than 1000 and the slot's
\* override is 1000
C8_Witness ==
    /\ ret.op = "setTickerRefreshInterval"
    /\ ret.args[3] < 1000
    /\ SlotOverride(tickers, ret.args[1], ret.args[2]) = << 1000 >>

----------------------------------------------------------------------------
(* C9: in every reachable state of every store instance, whatever interval *)
(* it was constructed with, getGlobalRefreshInterval() >= 1000 and         *)
(* getRefreshInterval(symbol, key) >= 1000 for all symbols and keys.       *)
C9_FloorInEveryState ==
    /\ globalIntervalMs >= 1000
    /\ \A slot \in Slots :
         RefreshIntervalOf(tickers, globalIntervalMs, slot[1], slot[2]) >= 1000

----------------------------------------------------------------------------
(* C10: getRefreshInterval returns the slot's override if one was ever     *)
(* set, else the global default as it is at read time.  An override wins   *)
(* over a shorter and over a longer global value and is not affected by    *)
(* later changes of the global default; an override is never removed and   *)
(* changes only by setTickerRefreshInterval on that slot; a slot without   *)
(* override follows the global default, also for a value already cached.   *)
C10_OverrideElseGlobalAtReadTime ==
    /\ [] \A slot \in Slots :
            LET override == SlotOverride(tickers, slot[1], slot[2])
                latest   == SlotLatest(tickers, slot[1], slot[2])
            IN  /\ override # << >> =>
                     RefreshIntervalOf(tickers, globalIntervalMs, slot[1], slot[2]) = override[1]
                /\ override = << >> =>
                     RefreshIntervalOf(tickers, globalIntervalMs, slot[1], slot[2]) = globalIntervalMs
                /\ (override = << >> /\ latest # << >>) =>
                     /\ ShouldRefreshOf(tickers, globalIntervalMs, slot[1], slot[2],
                                        latest[1].computedAt + globalIntervalMs)
                     /\ ~ShouldRefreshOf(tickers, globalIntervalMs, slot[1], slot[2],
                                         latest[1].computedAt + globalIntervalMs - 1)
    /\ [][ /\ ret'.op = "getRefreshInterval" =>
                ret'.out[1] =
                  IF SlotOverride(tickers, ret'.args[1], ret'.args[2]) # << >>
                  THEN SlotOverride(tickers, ret'.args[1], ret'.args[2])[1]
                  ELSE globalIntervalMs
           /\ tickers' # tickers =>
                \A slot \in Slots :
                  LET before == SlotOverride(tickers, slot[1], slot[2])
                      after  == SlotOverride(tickers', slot[1], slot[2])
                  IN  /\ before # << >> => after # << >>
                      /\ after # before =>
                           /\ ret'.op = "setTickerRefreshInterval"
                           /\ ToUpperCase(ret'.args[1]) = ToUpperCase(slot[1])
                           /\ ret'.args[2] = slot[2]
         ]_vars

\* getRefreshInterval returned the override of a slot that holds a cached
\* value while the global default is shorter than the override
C10_Witness ==
    /\ ret.op = "getRefreshInterval"
    /\ SlotOverride(tickers, ret.args[1], ret.args[2]) = ret.out
    /\ ret.out[1] > globalIntervalMs
    /\ globalIntervalMs >= 1000
    /\ SlotLatest(tickers, ret.args[1], ret.args[2]) # << >>

----------------------------------------------------------------------------
\* instants at which a never-written slot is probed, beyond the call times
ProbeTimes == Times \cup { -1000, 2000000 }

(* C11: for every (symbol, key) that has never been written, in every      *)
(* reachable state and whatever other slots hold and whatever intervals    *)
(* are set, getLatest returns null, getHistory returns an empty array and  *)
(* shouldRefresh is true at every now.  A slot counts as never written as  *)
(* long as its history is empty: a history, once non-empty, stays so.      *)
C11_NeverWrittenSlotReadsEmpty ==
    /\ [] ( /\ \A slot \in Slots :
                 SlotHistory(tickers, slot[1], slot[2]) = << >> =>
                   /\ LatestOf(tickers, slot[1], slot[2]) = << >>
                   /\ HistoryOf(tickers, slot[1], slot[2]) = << >>
                   /\ \A now \in ProbeTimes :
                        ShouldRefreshOf(tickers, globalIntervalMs, slot[1], slot[2], now)
            /\ ( /\ ret.op \in { "getLatest", "getHistory", "shouldRefresh" }
                 /\ SlotHistory(tickers, ret.args[1], ret.args[2]) = << >> )
               => ret.out = CASE ret.op = "getLatest"     -> << >>
                              [] ret.op = "getHistory"    -> << << >> >>
                              [] ret.op = "shouldRefresh" -> << TRUE >> )
    /\ [][ tickers' # tickers =>
             \A slot \in Slots :
               SlotHistory(tickers, slot[1], slot[2]) # << >>
                 => SlotHistory(tickers', slot[1], slot[2]) # << >> ]_vars

\* shouldRefresh answered true for an unwritten slot that has an interval
\* override, while another key of the same symbol holds a record
C11_Witness ==
    /\ ret.op = "shouldRefresh"
    /\ ret.out = << TRUE >>
    /\ SlotHistory(tickers, ret.args[1], ret.args[2]) = << >>
    /\ SlotOverride(tickers, ret.args[1], ret.args[2]) # << >>
    /\ \E k \in Keys : SlotLatest(tickers, ret.args[1], k) # << >>

----------------------------------------------------------------------------
\* the operations the interface documents as reads
ReadOps == { "getLatest", "getHistory", "getRefreshInterval",
             "getGlobalRefreshInterval", "shouldRefresh", "dump" }

(* C12: the read operations getLatest, getHistory, getRefreshInterval,     *)
(* getGlobalRefreshInterval, shouldRefresh and dump do not mutate the      *)
(* store: for any symbol, one never seen before included, what dump()      *)
(* reports is the same before and after the read, and no history is        *)
(* created.                                                                *)
C12_ReadsLeaveDumpUnchanged ==
    [][ ret'.op \in ReadOps =>
          /\ DumpOf(tickers', globalIntervalMs') = DumpOf(tickers, globalIntervalMs)
          /\ \A slot \in Slots :
               SlotHistory(tickers', slot[1], slot[2]) = SlotHistory(tickers, slot[1], slot[2])
      ]_vars

----------------------------------------------------------------------------
(* The store by object identity.                                           *)
(*                                                                         *)
(* Under SpecAlias the maps of a TickerState hold references: `latest`     *)
(* maps a key to the id of a record object and `history` maps a key to the *)
(* id of an array object whose items are ids of entry objects.  heap[id]   *)
(* is the object with that identity.  A caller keeps every reference it    *)
(* was handed and may write through it.  Arrays that no reference survives *)
(* to (the intermediate `history` array of upsert, the `[]` literal of     *)
(* getHistory) are not allocated.                                          *)

\* objects the heap may hold under SpecAlias
MaxObjects == 7

\* writes a caller makes through references it holds under SpecAlias
MaxCallerWrites == 2

AliasSymbol == <<"a", "a", "p", "l">>
AliasKey == "sentiment"
AliasTimes == { 0, 1000 }

\* what a caller writes into a field of an object it holds
CallerValues == { 5000 }

ArrayEdits == { "push", "pop", "reverse", "clear" }

RecordObject(key, value, computedAt) ==
    [kind |-> "record", key |-> key, value |-> value, computedAt |-> computedAt]

\* `{ ...latest, version }`: a new object with the fields of latest
EntryObject(key, value, computedAt, version) ==
    [kind |-> "entry", key |-> key, value |-> value, computedAt |-> computedAt,
     version |-> version]

ArrayObject(items) == [kind |-> "array", items |-> items]

\* `state.history.get(key) ?? []`: the items of the stored array
StoredItems(tk, hp, symbol, key) ==
    IF key \in DOMAIN TickerStateOf(tk, symbol).history
    THEN hp[TickerStateOf(tk, symbol).history[key]].items
    ELSE << >>

\* getHistory without the slice(): hands out the stored array itself
HistoryRefNoCopy(tk, hp, symbol, key) ==
    IF key \in DOMAIN TickerStateOf(tk, symbol).history
    THEN [heap |-> hp, id |-> TickerStateOf(tk, symbol).history[key]]
    ELSE [heap |-> Append(hp, ArrayObject(<< >>)), id |-> Len(hp) + 1]

\* getHistory: slice() allocates a new array holding the same entry objects
HistoryRef(tk, hp, symbol, key) ==
    [heap |-> Append(hp, ArrayObject(StoredItems(tk, hp, symbol, key))), id |-> Len(hp) + 1]

\* upsert: allocates the record, the history entry and the array that is stored
UpsertRef(tk, hp, symbol, key, value, computedAt) ==
    LET latest  == Len(hp) + 1
        entry   == Len(hp) + 2
        array   == Len(hp) + 3
        items   == StoredItems(tk, hp, symbol, key)
        ensured == EnsureTickerState(tk, symbol)
        state   == ensured[ToUpperCase(symbol)]
    IN  [ heap    |-> hp \o << RecordObject(key, value, computedAt),
                               EntryObject(key, value, computedAt, Len(items) + 1),
                               ArrayObject(SliceLast(Append(items, entry), HistoryWindow)) >>,
          id      |-> latest,
          tickers |-> MapSet(ensured, ToUpperCase(symbol),
                             [ latest    |-> MapSet(state.latest, key, latest),
                               history   |-> MapSet(state.history, key, array),
                               intervals |-> state.intervals ]) ]

\* the record a reference to a record or entry object denotes
RecordAt(hp, id) ==
    [key |-> hp[id].key, value |-> hp[id].value, computedAt |-> hp[id].computedAt]

\* the history entry a reference to an entry object denotes
EntryAt(hp, id) ==
    [key |-> hp[id].key, value |-> hp[id].value, computedAt |-> hp[id].computedAt,
     version |-> hp[id].version]

\* the array of entries a reference to an array object denotes
EntriesAt(hp, id) == [ n \in 1..Len(hp[id].items) |-> EntryAt(hp, hp[id].items[n]) ]

\* the store by value: every reference replaced by what it denotes
ViewOf(tk, hp) ==
    [ symbol \in DOMAIN tk |->
        [ latest    |-> [ k \in DOMAIN tk[symbol].latest |-> RecordAt(hp, tk[symbol].latest[k]) ],
          history   |-> [ k \in DOMAIN tk[symbol].history |-> EntriesAt(hp, tk[symbol].history[k]) ],
          intervals |-> tk[symbol].intervals ] ]

\* the references dump() hands out: each latest record and each stored
\* history array, as they are (Object.fromEntries copies neither)
DumpRefs(tk) ==
    UNION { { tk[symbol].latest[k]  : k \in DOMAIN tk[symbol].latest }
              \cup { tk[symbol].history[k] : k \in DOMAIN tk[symbol].history }
            : symbol \in DOMAIN tk }

Hold(ids, from) == held \cup { [id |-> id, from |-> from] : id \in ids }

\* every object a caller can reach: what it holds and the items of arrays it holds
Reachable ==
    { h.id : h \in held }
      \cup UNION { { heap[h.id].items[n] : n \in 1..Len(heap[h.id].items) }
                   : h \in { x \in held : heap[x.id].kind = "array" } }

GetLatestRef(symbol, key) ==
    /\ tickers' = EnsureTickerState(tickers, symbol)
    /\ held' = Hold({ LatestOf(tickers, symbol, key)[n] :
                        n \in 1..Len(LatestOf(tickers, symbol, key)) }, "record")
    /\ ret' = Call("getLatest", <<symbol, key>>, LatestOf(tickers, symbol, key))
    /\ UNCHANGED <<globalIntervalMs, computeCalls, log, heap, pending, twin, watchlists>>

GetHistoryRef(symbol, key) ==
    /\ Len(heap) < MaxObjects
    /\ tickers' = EnsureTickerState(tickers, symbol)
    /\ heap' = HistoryRef(tickers, heap, symbol, key).heap
    /\ held' = Hold({ HistoryRef(tickers, heap, symbol, key).id }, "getHistory")
    /\ ret' = Call("getHistory", <<symbol, key>>, << HistoryRef(tickers, heap, symbol, key).id >>)
    /\ UNCHANGED <<globalIntervalMs, computeCalls, log, pending, twin, watchlists>>

UpsertByRef(symbol, key, value, computedAt) ==
    /\ Len(heap) + 3 <= MaxObjects
    /\ tickers' = UpsertRef(tickers, heap, symbol, key, value, computedAt).tickers
    /\ heap' = UpsertRef(tickers, heap, symbol, key, value, computedAt).heap
    /\ held' = Hold({ UpsertRef(tickers, heap, symbol, key, value, computedAt).id }, "record")
    /\ ret' = Call("upsert", <<symbol, key, value, computedAt>>,
                   << UpsertRef(tickers, heap, symbol, key, value, computedAt).id >>)
    /\ UNCHANGED <<globalIntervalMs, computeCalls, log, pending, twin, watchlists>>

GetOrComputeRef(symbol, key, now) ==
    IF ~ShouldRefreshOf(ViewOf(tickers, heap), globalIntervalMs, symbol, key, now)
    THEN /\ tickers' = EnsureTickerState(tickers, symbol)
         /\ held' = Hold({ LatestOf(tickers, symbol, key)[1] }, "record")
         /\ ret' = Call("getOrCompute", <<symbol, key, now>>, LatestOf(tickers, symbol, key))
         /\ UNCHANGED <<globalIntervalMs, computeCalls, log, heap, pending, twin, watchlists>>
    ELSE /\ Len(heap) + 3 <= MaxObjects
         /\ computeCalls' = computeCalls + 1
         /\ tickers' = UpsertRef(tickers, heap, symbol, key, ComputeValue(computeCalls), now).tickers
         /\ heap' = UpsertRef(tickers, heap, symbol, key, ComputeValue(computeCalls), now).heap
         /\ held' = Hold({ UpsertRef(tickers, heap, symbol, key,
                                     ComputeValue(computeCalls), now).id }, "record")
         /\ ret' = Call("getOrCompute", <<symbol, key, now>>,
                        << UpsertRef(tickers, heap, symbol, key,
                                     ComputeValue(computeCalls), now).id >>)
         /\ UNCHANGED <<globalIntervalMs, log, pending, twin, watchlists>>

DumpRef ==
    /\ held' = Hold(DumpRefs(tickers), "dump")
    /\ ret' = Call("dump", << >>, << DumpRefs(tickers) >>)
    /\ UNCHANGED <<globalIntervalMs, tickers, computeCalls, log, heap, pending, twin, watchlists>>

\* the caller assigns to a field of a record or entry object it can reach
CallerSetsField(id, field, v) ==
    /\ Len(log) < MaxCallerWrites
    /\ id \in Reachable
    /\ heap[id].kind \in { "record", "entry" }
    /\ heap' = CASE field = "value"      -> [heap EXCEPT ![id].value = v]
                 [] field = "computedAt" -> [heap EXCEPT ![id].computedAt = v]
    /\ ret' = Call("callerSetsField", <<id, field, v>>, << >>)
    /\ log' = Append(log, "callerSetsField")
    /\ UNCHANGED <<globalIntervalMs, tickers, computeCalls, held, pending, twin, watchlists>>

\* the caller adds to, removes from, reorders or clears an array it holds
CallerEditsArray(id, edit) ==
    /\ Len(log) < MaxCallerWrites
    /\ id \in { h.id : h \in held }
    /\ heap[id].kind = "array"
    /\ edit = "push" => Len(heap) < MaxObjects
    /\ edit = "pop" => heap[id].items # << >>
    /\ heap' =
         CASE edit = "push" ->
                Append([heap EXCEPT ![id].items = Append(@, Len(heap) + 1)],
                       EntryObject("forged", 0, 0, 0))
           [] edit = "pop" -> [heap EXCEPT ![id].items = SubSeq(@, 1, Len(@) - 1)]
           [] edit = "reverse" ->
                [heap EXCEPT ![id].items = [ n \in 1..Len(@) |-> @[Len(@) + 1 - n] ]]
           [] edit = "clear" -> [heap EXCEPT ![id].items = << >>]
    /\ ret' = Call("callerEditsArray", <<id, edit>>, << >>)
    /\ log' = Append(log, "callerEditsArray")
    /\ UNCHANGED <<globalIntervalMs, tickers, computeCalls, held, pending, twin, watchlists>>

NextAlias ==
    \/ GetLatestRef(AliasSymbol, AliasKey)
    \/ GetHistoryRef(AliasSymbol, AliasKey)
    \/ \E v \in Payloads, t \in AliasTimes : UpsertByRef(AliasSymbol, AliasKey, v, t)
    \/ \E now \in AliasTimes : GetOrComputeRef(AliasSymbol, AliasKey, now)
    \/ DumpRef
    \/ \E id \in 1..Len(heap), field \in { "value", "computedAt" }, v \in CallerValues :
         CallerSetsField(id, field, v)
    \/ \E id \in 1..Len(heap), edit \in ArrayEdits : CallerEditsArray(id, edit)

SpecAlias == Init /\ [][NextAlias]_vars

\* the arrays getHistory handed out
HistoryCopies == { h.id : h \in { x \in held : x.from = "getHistory" } }

(* C13: getHistory returns a copy of the slot's history.  Adding to,       *)
(* removing from, reordering or clearing a returned array changes nothing  *)
(* that a later getHistory or getLatest returns, and a later upsert does   *)
(* not change an array that was returned earlier.                          *)
C13_GetHistoryReturnsCopy ==
    [][ /\ ( ret'.op = "callerEditsArray" /\ ret'.args[1] \in HistoryCopies )
           => /\ ViewOf(tickers', heap') = ViewOf(tickers, heap)
              /\ tickers' = tickers
        /\ ret'.op \in { "upsert", "getOrCompute" }
           => \A id \in HistoryCopies :
                /\ heap'[id] = heap[id]
                /\ EntriesAt(heap', id) = EntriesAt(heap, id)
      ]_vars

\* the caller cleared an array it got from getHistory while the slot has a history
C13_Witness ==
    /\ ret.op = "callerEditsArray"
    /\ ret.args[1] \in HistoryCopies
    /\ ret.args[2] = "clear"
    /\ HistoryOf(ViewOf(tickers, heap), AliasSymbol, AliasKey) # << >>

\* an upsert landed after getHistory had handed out a copy of a non-empty history
C13_WitnessLaterUpsert ==
    /\ ret.op = "upsert"
    /\ \E id \in HistoryCopies : Len(heap[id].items) = 1
    /\ Len(HistoryOf(ViewOf(tickers, heap), AliasSymbol, AliasKey)) = 2

(* C14: callers cannot corrupt internal state through any returned value:  *)
(* writing to a record obtained from getLatest, getOrCompute or upsert, to *)
(* an entry object inside an array returned by getHistory, or to any array *)
(* or object inside the result of dump() leaves what later store reads     *)
(* return unchanged.                                                       *)
C14_ReturnedValuesAreDetached ==
    [][ ret'.op \in { "callerSetsField", "callerEditsArray" }
          => ViewOf(tickers', heap') = ViewOf(tickers, heap) ]_vars

----------------------------------------------------------------------------
(* Callers that spell one symbol in several casings and use keys that      *)
(* differ only in case.  log records the writes: <<op, symbol, key>>.       *)

\* upserts and interval overrides made under SpecCase
MaxCaseWrites == 2

CaseSymbols == { <<"a", "a", "p", "l">>, <<"A", "A", "P", "L">>, <<"A", "a", "p", "l">> }
CaseKeys == { "sentiment", "SENTIMENT" }

NextCase ==
    \/ /\ Len(log) < MaxCaseWrites
       /\ \E s \in CaseSymbols, k \in CaseKeys, v \in Payloads :
            Upsert(s, k, v, Len(log) * 1000) /\ log' = Append(log, <<"upsert", s, k>>)
       /\ UNCHANGED refs
    \/ /\ Len(log) < MaxCaseWrites
       /\ \E s \in CaseSymbols, k \in CaseKeys :
            SetTickerRefreshInterval(s, k, 2000)
              /\ log' = Append(log, <<"setTickerRefreshInterval", s, k>>)
       /\ UNCHANGED refs
    \/ (\E s \in CaseSymbols, k \in CaseKeys : GetLatest(s, k)) /\ UNCHANGED <<log, refs>>
    \/ (\E s \in CaseSymbols, k \in CaseKeys : GetHistory(s, k)) /\ UNCHANGED <<log, refs>>
    \/ (\E s \in CaseSymbols, k \in CaseKeys : GetRefreshInterval(s, k))
         /\ UNCHANGED <<log, refs>>
    \/ (\E s \in CaseSymbols, k \in CaseKeys, now \in Times : ShouldRefresh(s, k, now))
         /\ UNCHANGED <<log, refs>>
    \/ Dump /\ UNCHANGED <<log, refs>>

SpecCase == Init /\ [][NextCase]_vars

\* the one spelling every symbol of CaseSymbols normalizes to
CaseUpper == <<"A", "A", "P", "L">>

(* C15: symbols are case-normalized: an operation called with any casing   *)
(* of a symbol addresses the same TickerState as any other casing, and     *)
(* dump() lists that state once, under the uppercased symbol.  Keys are    *)
(* not normalized: keys that differ only in case are distinct slots, a     *)
(* write or override on one leaves the other as it was.                    *)
C15_SymbolsNormalizedKeysNot ==
    /\ [] ( /\ DOMAIN DumpOf(tickers, globalIntervalMs) \subseteq { CaseUpper }
            /\ \A sym \in DOMAIN DumpOf(tickers, globalIntervalMs) :
                 DumpOf(tickers, globalIntervalMs)[sym].symbol = CaseUpper
            /\ \A s \in CaseSymbols, k \in CaseKeys :
                 /\ LatestOf(tickers, s, k) = LatestOf(tickers, CaseUpper, k)
                 /\ HistoryOf(tickers, s, k) = HistoryOf(tickers, CaseUpper, k)
                 /\ RefreshIntervalOf(tickers, globalIntervalMs, s, k)
                      = RefreshIntervalOf(tickers, globalIntervalMs, CaseUpper, k)
                 /\ \A t \in Times :
                      ShouldRefreshOf(tickers, globalIntervalMs, s, k, t)
                        = ShouldRefreshOf(tickers, globalIntervalMs, CaseUpper, k, t)
                 /\ UpsertStore(tickers, s, k, 70, 0) = UpsertStore(tickers, CaseUpper, k, 70, 0)
            /\ \A k \in CaseKeys :
                 /\ Len(HistoryOf(tickers, CaseUpper, k))
                      = Cardinality({ n \in 1..Len(log) :
                                        log[n][1] = "upsert" /\ log[n][3] = k })
                 /\ SlotOverride(tickers, CaseUpper, k) # << >>
                      <=> \E n \in 1..Len(log) :
                            log[n][1] = "setTickerRefreshInterval" /\ log[n][3] = k )
    /\ [][ ret'.op \in { "upsert", "setTickerRefreshInterval" } =>
             \A s \in CaseSymbols, k \in CaseKeys \ { ret'.args[2] } :
               /\ LatestOf(tickers', s, k) = LatestOf(tickers, s, k)
               /\ HistoryOf(tickers', s, k) = HistoryOf(tickers, s, k)
               /\ RefreshIntervalOf(tickers', globalIntervalMs', s, k)
                    = RefreshIntervalOf(tickers, globalIntervalMs, s, k) ]_vars

\* a record written under the lower-case spelling is read under the mixed
\* spelling, while the key that differs only in case is still unwritten
C15_Witness ==
    /\ ret.op = "getLatest"
    /\ ret.args = << <<"A", "a", "p", "l">>, "sentiment" >>
    /\ ret.out # << >>
    /\ log = << <<"upsert", <<"a", "a", "p", "l">>, "sentiment">> >>
    /\ LatestOf(tickers, CaseUpper, "SENTIMENT") = << >>
    /\ DOMAIN tickers = { CaseUpper }

----------------------------------------------------------------------------
(* getOrComputeAsync.  The call tests shouldRefresh and, when the slot is  *)
(* stale, invokes compute() before it suspends at `await`; it resumes when *)
(* the producer's promise is fulfilled and then calls upsert with the now  *)
(* it was called with.  pending holds the suspended calls; nothing orders  *)
(* their settlement and nothing forces it.                                 *)

\* producers invoked and records written under SpecAsync
MaxProducers == 3

AsyncSymbol == <<"M", "S", "F", "T">>
AsyncKey == "sentiment"
AsyncTimes == { 0, 1000 }

\* a store may be constructed with any number: the constructor stores it as given
AsyncConstructorArgs == { 0, 1000 }

\* getOrComputeAsync on a fresh slot that invokes the producer all the same
AsyncHitRecomputes(symbol, key, now) ==
    /\ computeCalls' = computeCalls + 1
    /\ tickers' = EnsureTickerState(tickers, symbol)
    /\ pending' = Append(pending, [ symbol |-> symbol, key |-> key, now |-> now,
                                    value |-> ComputeValue(computeCalls) ])
    /\ ret' = Call("getOrComputeAsync", <<symbol, key, now>>, << >>)
    /\ UNCHANGED <<globalIntervalMs, log, heap, held, twin, watchlists>>

\* getOrComputeAsync on a fresh slot: returns the latest record
AsyncHit(symbol, key, now) ==
    /\ tickers' = EnsureTickerState(tickers, symbol)
    /\ ret' = Call("getOrComputeAsync", <<symbol, key, now>>, LatestOf(tickers, symbol, key))
    /\ UNCHANGED <<globalIntervalMs, computeCalls, log, heap, held, pending, twin, watchlists>>

\* single flight: a stale call joins a call already suspended on the same slot
AsyncSuspendSingleFlight(symbol, key, now) ==
    IF \E n \in 1..Len(pending) :
         ToUpperCase(pending[n].symbol) = ToUpperCase(symbol) /\ pending[n].key = key
    THEN /\ ret' = Call("getOrComputeAsync", <<symbol, key, now>>, << >>)
         /\ UNCHANGED <<globalIntervalMs, tickers, computeCalls, log, heap, held, pending, twin, watchlists>>
    ELSE /\ computeCalls' = computeCalls + 1
         /\ tickers' = EnsureTickerState(tickers, symbol)
         /\ pending' = Append(pending, [ symbol |-> symbol, key |-> key, now |-> now,
                                         value |-> ComputeValue(computeCalls) ])
         /\ ret' = Call("getOrComputeAsync", <<symbol, key, now>>, << >>)
         /\ UNCHANGED <<globalIntervalMs, log, heap, held, twin, watchlists>>

\* getOrComputeAsync on a stale slot: compute() is invoked, the call suspends
AsyncSuspend(symbol, key, now) ==
    /\ computeCalls' = computeCalls + 1
    /\ tickers' = EnsureTickerState(tickers, symbol)
    /\ pending' = Append(pending, [ symbol |-> symbol, key |-> key, now |-> now,
                                    value |-> ComputeValue(computeCalls) ])
    /\ ret' = Call("getOrComputeAsync", <<symbol, key, now>>, << >>)
    /\ UNCHANGED <<globalIntervalMs, log, heap, held, twin, watchlists>>

\* getOrComputeAsync up to its first suspension
GetOrComputeAsync(symbol, key, now) ==
    IF ~ShouldRefreshOf(tickers, globalIntervalMs, symbol, key, now)
    THEN AsyncHit(symbol, key, now)
    ELSE AsyncSuspend(symbol, key, now)

\* the n-th suspended call resumes: its producer's promise was fulfilled
ResumeGetOrComputeAsync(n) ==
    /\ n \in 1..Len(pending)
    /\ tickers' = UpsertStore(tickers, pending[n].symbol, pending[n].key,
                              pending[n].value, pending[n].now)
    /\ pending' = [ m \in 1..(Len(pending) - 1) |->
                      IF m < n THEN pending[m] ELSE pending[m + 1] ]
    /\ ret' = Call("getOrComputeAsync.resumed",
                   <<pending[n].symbol, pending[n].key, pending[n].now>>,
                   << LatestRecord(pending[n].key, pending[n].value, pending[n].now) >>)
    /\ UNCHANGED <<globalIntervalMs, computeCalls, log, heap, held, twin, watchlists>>

InitAsync ==
    /\ globalIntervalMs \in AsyncConstructorArgs
    /\ tickers = EmptyMap
    /\ computeCalls = 0
    /\ ret = Call("new", << >>, << >>)
    /\ log = << >>
    /\ heap = << >>
    /\ held = {}
    /\ pending = << >>
    /\ twin = << >>
    /\ watchlists = << >>

\* records written so far plus writes still to come from suspended calls
AsyncLoad == TotalEntries(tickers) + Len(pending)

NextAsync ==
    \/ \E now \in AsyncTimes :
         /\ ShouldRefreshOf(tickers, globalIntervalMs, AsyncSymbol, AsyncKey, now)
              => AsyncLoad < MaxProducers
         /\ GetOrComputeAsync(AsyncSymbol, AsyncKey, now)
    \/ \E n \in 1..Len(pending) : ResumeGetOrComputeAsync(n)
    \/ /\ AsyncLoad < MaxProducers
       /\ \E v \in Payloads, t \in AsyncTimes : Upsert(AsyncSymbol, AsyncKey, v, t)
       /\ UNCHANGED <<log, refs>>
    \/ /\ \E now \in AsyncTimes :
            /\ ShouldRefreshOf(tickers, globalIntervalMs, AsyncSymbol, AsyncKey, now)
                 => AsyncLoad < MaxProducers
            /\ GetOrCompute(AsyncSymbol, AsyncKey, now)
       /\ UNCHANGED <<log, refs>>
    \/ (\E now \in AsyncTimes : ShouldRefresh(AsyncSymbol, AsyncKey, now))
         /\ UNCHANGED <<log, refs>>
    \/ GetLatest(AsyncSymbol, AsyncKey) /\ UNCHANGED <<log, refs>>
    \/ GetHistory(AsyncSymbol, AsyncKey) /\ UNCHANGED <<log, refs>>
    \/ SetGlobalRefreshInterval(2000) /\ UNCHANGED <<log, refs>>

SpecAsync == InitAsync /\ [][NextAsync]_vars

\* the step wrote the slot named in ret': an upsert, a getOrCompute that
\* recomputed, or a getOrComputeAsync that resumed
IsRefreshStep ==
    \/ ret'.op = "upsert"
    \/ ret'.op = "getOrCompute" /\ computeCalls' = computeCalls + 1
    \/ ret'.op = "getOrComputeAsync.resumed"

\* the time the refresh of this step is stamped with
RefreshTime == IF ret'.op = "upsert" THEN ret'.args[4] ELSE ret'.args[3]

(* C16: a refresh at time t (an upsert with computedAt = t, or a           *)
(* getOrCompute or getOrComputeAsync called with now = t that recomputes)  *)
(* leaves the slot fresh at t: shouldRefresh(symbol, key, t) is false      *)
(* right after it, and the history has one more entry.  A written slot     *)
(* never becomes empty again.                                              *)
C16_RefreshLeavesSlotFresh ==
    [][ /\ IsRefreshStep =>
             /\ ~ShouldRefreshOf(tickers', globalIntervalMs', ret'.args[1], ret'.args[2],
                                 RefreshTime)
             /\ Len(SlotHistory(tickers', ret'.args[1], ret'.args[2]))
                  = Len(SlotHistory(tickers, ret'.args[1], ret'.args[2])) + 1
        /\ SlotLatest(tickers, AsyncSymbol, AsyncKey) # << >>
             => SlotLatest(tickers', AsyncSymbol, AsyncKey) # << >>
      ]_vars

\* the same property for the stores whose global interval is positive
C16_FreshWhenIntervalPositive ==
    [][ globalIntervalMs > 0 => 
        /\ IsRefreshStep =>
             /\ ~ShouldRefreshOf(tickers', globalIntervalMs', ret'.args[1], ret'.args[2],
                                 RefreshTime)
             /\ Len(SlotHistory(tickers', ret'.args[1], ret'.args[2]))
                  = Len(SlotHistory(tickers, ret'.args[1], ret'.args[2])) + 1
        /\ SlotLatest(tickers, AsyncSymbol, AsyncKey) # << >>
             => SlotLatest(tickers', AsyncSymbol, AsyncKey) # << >>
      ]_vars

----------------------------------------------------------------------------
\* a record held under the normalized symbol sym and key is younger at now
\* than the slot's effective interval
StoredFresh(tk, g, sym, key, now) ==
    now - tk[sym].latest[key].computedAt
      < (IF key \in DOMAIN tk[sym].intervals THEN tk[sym].intervals[key] ELSE g)

\* the step changed whether the written slot (sym, key) is fresh at now
FreshnessChanged(sym, key, now) ==
    StoredFresh(tickers', globalIntervalMs', sym, key, now)
      # StoredFresh(tickers, globalIntervalMs, sym, key, now)

\* the step wrote the slot: its history is not what it was
WroteSlot(sym, key) == tickers'[sym].history[key] # tickers[sym].history[key]

(* C17 as stated: the three transitions are the only ones.  At a fixed now *)
(* a fresh slot never turns stale, a stale slot turns fresh only through   *)
(* an upsert on that slot, and no other store operation, neither interval  *)
(* setter in particular, changes whether a written slot is fresh or stale. *)
C17_OnlyUpsertChangesFreshness ==
    [][ (tickers' # tickers \/ globalIntervalMs' # globalIntervalMs) =>
          \A sym \in DOMAIN tickers :
            \A key \in DOMAIN tickers[sym].latest, now \in Times :
              FreshnessChanged(sym, key, now)
                => /\ WroteSlot(sym, key)
                   /\ StoredFresh(tickers', globalIntervalMs', sym, key, now)
      ]_vars

(* C17, amended: at a fixed now a written slot changes between fresh and   *)
(* stale only through a write on that slot (upsert or a getOrCompute that  *)
(* recomputes) or through a change of its effective interval, made by      *)
(* setTickerRefreshInterval on that slot or, when the slot has no          *)
(* override, by setGlobalRefreshInterval.  No read and no operation on     *)
(* another slot changes it.                                                *)
C17_WriteOrIntervalChangesFreshness ==
    [][ (tickers' # tickers \/ globalIntervalMs' # globalIntervalMs) =>
          \A sym \in DOMAIN tickers :
            \A key \in DOMAIN tickers[sym].latest, now \in Times :
              FreshnessChanged(sym, key, now)
                => \/ /\ WroteSlot(sym, key)
                      /\ ret'.op \in { "upsert", "getOrCompute" }
                      /\ ToUpperCase(ret'.args[1]) = sym
                      /\ ret'.args[2] = key
                   \/ /\ ret'.op = "setTickerRefreshInterval"
                      /\ ToUpperCase(ret'.args[1]) = sym
                      /\ ret'.args[2] = key
                      /\ tickers'[sym].intervals[key] = ClampedTo1000(ret'.args[3])
                      /\ tickers'[sym].latest = tickers[sym].latest
                   \/ /\ ret'.op = "setGlobalRefreshInterval"
                      /\ key \notin DOMAIN tickers[sym].intervals
                      /\ globalIntervalMs' # globalIntervalMs
                      /\ tickers' = tickers
      ]_vars

\* setGlobalRefreshInterval(2000) has acted on a store holding a record
\* computed at 0 in a slot without override: at now = 1000 the slot reads
\* fresh, as it does not under an interval of 1000 or less
C17_Witness ==
    /\ ret.op = "setGlobalRefreshInterval"
    /\ ret.args = << 2000 >>
    /\ \E slot \in Slots :
         /\ SlotLatest(tickers, slot[1], slot[2]) # << >>
         /\ SlotLatest(tickers, slot[1], slot[2])[1].computedAt = 0
         /\ SlotOverride(tickers, slot[1], slot[2]) = << >>
         /\ IsFresh(tickers, globalIntervalMs, slot[1], slot[2], 1000)
         /\ ~IsFresh(tickers, 1000, slot[1], slot[2], 1000)

----------------------------------------------------------------------------
(* C18: there is no single flight.  A getOrComputeAsync call on a stale    *)
(* slot observes the staleness and invokes its producer also while another *)
(* call on the same slot is suspended; each of the overlapping calls       *)
(* upserts when it completes, so the history grows by one per call, and    *)
(* the latest record is that of the call that completed last.              *)
C18_OverlappingAsyncCallsBothWrite ==
    /\ [][ ( /\ ret'.op = "getOrComputeAsync"
             /\ ShouldRefreshOf(tickers, globalIntervalMs,
                                ret'.args[1], ret'.args[2], ret'.args[3]) )
           => /\ computeCalls' = computeCalls + 1
              /\ Len(pending') = Len(pending) + 1
              /\ ret'.out = << >> ]_vars
    /\ [][ ret'.op = "getOrComputeAsync.resumed"
           => /\ Len(pending') = Len(pending) - 1
              /\ Len(SlotHistory(tickers', ret'.args[1], ret'.args[2]))
                   = Len(SlotHistory(tickers, ret'.args[1], ret'.args[2])) + 1
              /\ SlotLatest(tickers', ret'.args[1], ret'.args[2]) = ret'.out
              /\ ret'.out[1].computedAt = ret'.args[3]
              /\ \E n \in 1..Len(pending) :
                   /\ pending[n].value = ret'.out[1].value
                   /\ pending[n].now = ret'.args[3] ]_vars
    /\ [] ( /\ computeCalls
                = Len(SlotHistory(tickers, AsyncSymbol, AsyncKey)) + Len(pending)
                    - Cardinality({ n \in 1..Len(SlotHistory(tickers, AsyncSymbol, AsyncKey)) :
                                      SlotHistory(tickers, AsyncSymbol, AsyncKey)[n].value
                                        \in Payloads })
            /\ \A n \in 1..Len(pending) : pending[n].value \in 1..computeCalls )

\* two calls overlapped on the empty slot, both producers ran, both calls
\* wrote, and the call that was made first completed last
C18_Witness ==
    /\ ret.op = "getOrComputeAsync.resumed"
    /\ pending = << >>
    /\ twin = << >>
    /\ watchlists = << >>
    /\ computeCalls = 2
    /\ Len(SlotHistory(tickers, AsyncSymbol, AsyncKey)) = 2
    /\ SlotHistory(tickers, AsyncSymbol, AsyncKey)[1].value = 2
    /\ SlotLatest(tickers, AsyncSymbol, AsyncKey)[1].value = 1

----------------------------------------------------------------------------
(* C19: getOrComputeAsync suspends only while its producer is pending.  On *)
(* a fresh slot it completes at once without invoking the producer; on a   *)
(* stale slot it writes nothing until the producer settles and completes   *)
(* by the upsert that follows.  While a producer has not settled its call  *)
(* stays suspended and writes nothing (the slot changes only through       *)
(* writes of other calls), and every other store operation can still be    *)
(* called and completes.                                                   *)
C19_AsyncSuspendsOnlyOnProducer ==
    /\ [][ ret'.op = "getOrComputeAsync" =>
             /\ tickers' = EnsureTickerState(tickers, ret'.args[1])
             /\ IF ShouldRefreshOf(tickers, globalIntervalMs,
                                   ret'.args[1], ret'.args[2], ret'.args[3])
                THEN ret'.out = << >> /\ Len(pending') = Len(pending) + 1
                ELSE /\ ret'.out = SlotLatest(tickers, ret'.args[1], ret'.args[2])
                     /\ ret'.out # << >>
                     /\ computeCalls' = computeCalls
                     /\ pending' = pending ]_vars
    /\ [][ /\ ret'.op # "getOrComputeAsync.resumed" =>
                \A n \in 1..Len(pending) : pending'[n] = pending[n]
           /\ SlotHistory(tickers', AsyncSymbol, AsyncKey)
                # SlotHistory(tickers, AsyncSymbol, AsyncKey)
                => \/ ret'.op \in { "upsert", "getOrComputeAsync.resumed" }
                   \/ ret'.op = "getOrCompute" /\ computeCalls' = computeCalls + 1 ]_vars
    /\ [] ( pending # << >> =>
              /\ \A n \in 1..Len(pending) : ENABLED ResumeGetOrComputeAsync(n)
              /\ ENABLED GetLatest(AsyncSymbol, AsyncKey)
              /\ ENABLED GetHistory(AsyncSymbol, AsyncKey)
              /\ ENABLED ShouldRefresh(AsyncSymbol, AsyncKey, 0)
              /\ ENABLED Upsert(AsyncSymbol, AsyncKey, 70, 0)
              /\ ENABLED GetOrCompute(AsyncSymbol, AsyncKey, 0)
              /\ ENABLED SetGlobalRefreshInterval(2000)
              /\ ENABLED Dump )

\* a call is suspended on the slot it found empty, the slot is still empty,
\* and a read was served meanwhile
C19_Witness ==
    /\ ret.op = "getLatest"
    /\ ret.out = << >>
    /\ Len(pending) = 1
    /\ computeCalls = 1
    /\ SlotLatest(tickers, AsyncSymbol, AsyncKey) = << >>

----------------------------------------------------------------------------
(* Report assembly (registry): buildTickerReportCached over the module's   *)
(* own store.  A produced value is kept as what determines it: the         *)
(* producer (the `model` field that summarize and plan put into their      *)
(* result), the symbol and the price it was computed for.  null is "".     *)

\* builds made under SpecReport
MaxBuilds == 2

\* engines: defaultFundamentalModels
FundamentalModels ==
    << [id |-> "dcf-core", name |-> "DCF Core"],
       [id |-> "quality-factors", name |-> "Quality Factors"] >>

\* engines: defaultEntryPointModels; buildEntry derives the id from the name
EntryPointModels ==
    << [id |-> "swing-structure", name |-> "Swing Structure"],
       [id |-> "momentum-breakout", name |-> "Momentum Breakout"],
       [id |-> "rsi-mean-reversion", name |-> "RSI Mean Reversion"],
       [id |-> "atr-trend-continuation", name |-> "ATR Trend Continuation"] >>

\* contexts: analysisContexts
AnalysisContexts ==
    << [id |-> "default_mock",
        newsProvider |-> "mock-headlines", tickerPriceProvider |-> "mock-random-price",
        sentimentEngine |-> "weighted-headline",
        fundamentalModels |-> FundamentalModels, entryPointModels |-> EntryPointModels],
       [id |-> "default_live",
        newsProvider |-> "yahoo-news", tickerPriceProvider |-> "yahoo-price",
        sentimentEngine |-> "weighted-headline",
        fundamentalModels |-> FundamentalModels, entryPointModels |-> EntryPointModels] >>

\* `array.find((x) => x.id === id) ?? array[0]`
FindById(array, id) ==
    IF \E n \in 1..Len(array) : array[n].id = id
    THEN array[CHOOSE n \in 1..Len(array) :
                 array[n].id = id /\ \A m \in 1..(n - 1) : array[m].id # id]
    ELSE array[1]

GetAnalysisContext(contextId) == FindById(AnalysisContexts, contextId)

GetFundamentalModel(context, id) == FindById(context.fundamentalModels, id)

\* the fallback carries the requested id
GetEntryPointModelKeepId(context, id) == [FindById(context.entryPointModels, id) EXCEPT !.id = id]

GetEntryPointModel(context, id) == FindById(context.entryPointModels, id)

BuildTargetConsensus(symbol, currentPrice) ==
    [metric |-> "target-consensus", symbol |-> symbol, price |-> currentPrice]

\* sentimentEngine.build(symbol, signals): the digest is determined by the
\* effective signals, the neutral fallback pair when signals is empty
SentimentBuild(engine, symbol, signals) ==
    [metric |-> "sentiment", engine |-> engine, symbol |-> symbol,
     signals |-> IF Len(signals) # 0 THEN signals ELSE <<"feed unavailable", "feed unavailable">>]

Summarize(model, symbol, currentPrice) ==
    [model |-> model.name, symbol |-> symbol, price |-> currentPrice]

Plan(model, symbol, currentPrice) ==
    [model |-> model.name, symbol |-> symbol, price |-> currentPrice]

\* one slot for the fundamental summary whichever model is selected
FundamentalKeyShared(model) == "fundamental"

\* `fundamental:${fundamentalModel.id}`
FundamentalKey(model) == "fundamental:" \o model.id

\* `entry:${entryModel.id}`
EntryKey(model) == "entry:" \o model.id

\* getOrCompute that recomputes a slot whenever any written slot of the symbol
\* is due
GetOrComputeOfSymbolWide(tk, g, symbol, key, value, now) ==
    IF ~(\/ ShouldRefreshOf(tk, g, symbol, key, now)
         \/ \E other \in DOMAIN TickerStateOf(tk, symbol).latest :
              ShouldRefreshOf(tk, g, symbol, other, now))
    THEN [tickers |-> EnsureTickerState(tk, symbol),
          value |-> LatestOf(tk, symbol, key)[1].value, computed |-> 0]
    ELSE [tickers |-> UpsertStore(tk, symbol, key, value, now),
          value |-> value, computed |-> 1]

\* getOrCompute as a function: the tickers map after the call, the value of
\* the record returned, and whether compute was invoked
GetOrComputeOf(tk, g, symbol, key, value, now) ==
    IF ~ShouldRefreshOf(tk, g, symbol, key, now)
    THEN [tickers |-> EnsureTickerState(tk, symbol),
          value |-> LatestOf(tk, symbol, key)[1].value, computed |-> 0]
    ELSE [tickers |-> UpsertStore(tk, symbol, key, value, now),
          value |-> value, computed |-> 1]

\* buildTickerReport: every metric computed from the symbol and the price
\* passed; the sentiment is built from the two context fallback headlines
TickerReportOf(symbol, currentPrice, contextId, fundamentalModelId, entryModelId) ==
    LET context          == GetAnalysisContext(contextId)
        normalized       == ToUpperCase(symbol)
        fundamentalModel == GetFundamentalModel(context, fundamentalModelId)
        entryModel       == GetEntryPointModel(context, entryModelId)
        mockSignals      == <<"context fallback headlines", "context fallback headlines">>
    IN  [ symbol          |-> normalized,
          currentPrice    |-> currentPrice,
          targetConsensus |-> BuildTargetConsensus(normalized, currentPrice),
          sentiment       |-> SentimentBuild(context.sentimentEngine, normalized, mockSignals),
          fundamental     |-> Summarize(fundamentalModel, normalized, currentPrice),
          entryPlan       |-> Plan(entryModel, normalized, currentPrice),
          comparisons     |->
            [ fundamentals |->
                [ n \in 1..Len(context.fundamentalModels) |->
                    Summarize(context.fundamentalModels[n], normalized, currentPrice) ],
              entries |->
                [ n \in 1..Len(context.entryPointModels) |->
                    Plan(context.entryPointModels[n], normalized, currentPrice) ] ] ]

\* buildTickerReportCached whose comparison arrays go through the cache as
\* well: one getOrCompute per registered fundamental model
CachedReportOfCachedComparisons(tk, g, symbol, currentPrice, contextId, fundamentalModelId, entryModelId, now) ==
    LET context          == GetAnalysisContext(contextId)
        normalized       == ToUpperCase(symbol)
        fundamentalModel == GetFundamentalModel(context, fundamentalModelId)
        entryModel       == GetEntryPointModel(context, entryModelId)
        targetConsensus  == GetOrComputeOf(tk, g, normalized, "target-consensus",
                                           BuildTargetConsensus(normalized, currentPrice), now)
        sentiment        == GetOrComputeOf(targetConsensus.tickers, g, normalized, "sentiment",
                                           SentimentBuild(context.sentimentEngine, normalized,
                                                          << >>),
                                           now)
        first            == GetOrComputeOf(sentiment.tickers, g, normalized,
                                           FundamentalKey(context.fundamentalModels[1]),
                                           Summarize(context.fundamentalModels[1], normalized,
                                                     currentPrice),
                                           now)
        second           == GetOrComputeOf(first.tickers, g, normalized,
                                           FundamentalKey(context.fundamentalModels[2]),
                                           Summarize(context.fundamentalModels[2], normalized,
                                                     currentPrice),
                                           now)
        entryPlan        == GetOrComputeOf(second.tickers, g, normalized,
                                           EntryKey(entryModel),
                                           Plan(entryModel, normalized, currentPrice), now)
    IN  [ tickers  |-> entryPlan.tickers,
          computed |-> targetConsensus.computed + sentiment.computed
                         + first.computed + second.computed + entryPlan.computed,
          report   |->
            [ symbol          |-> normalized,
              currentPrice    |-> currentPrice,
              targetConsensus |-> targetConsensus.value,
              sentiment       |-> sentiment.value,
              fundamental     |-> IF fundamentalModel = context.fundamentalModels[1]
                                  THEN first.value ELSE second.value,
              entryPlan       |-> entryPlan.value,
              comparisons     |->
                [ fundamentals |-> << first.value, second.value >>,
                  entries |->
                    [ n \in 1..Len(context.entryPointModels) |->
                        Plan(context.entryPointModels[n], normalized, currentPrice) ] ] ] ]

\* buildTickerReportCached with the context id in the keys of the shared metrics
CachedReportOfPerContext(tk, g, symbol, currentPrice, contextId, fundamentalModelId, entryModelId, now) ==
    LET context          == GetAnalysisContext(contextId)
        normalized       == ToUpperCase(symbol)
        fundamentalModel == GetFundamentalModel(context, fundamentalModelId)
        entryModel       == GetEntryPointModel(context, entryModelId)
        targetConsensus  == GetOrComputeOf(tk, g, normalized, "target-consensus:" \o context.id,
                                           BuildTargetConsensus(normalized, currentPrice), now)
        sentiment        == GetOrComputeOf(targetConsensus.tickers, g, normalized, "sentiment:" \o context.id,
                                           SentimentBuild(context.sentimentEngine, normalized,
                                                          << >>),
                                           now)
        fundamental      == GetOrComputeOf(sentiment.tickers, g, normalized,
                                           FundamentalKey(fundamentalModel),
                                           Summarize(fundamentalModel, normalized, currentPrice),
                                           now)
        entryPlan        == GetOrComputeOf(fundamental.tickers, g, normalized,
                                           EntryKey(entryModel),
                                           Plan(entryModel, normalized, currentPrice), now)
    IN  [ tickers  |-> entryPlan.tickers,
          computed |-> targetConsensus.computed + sentiment.computed
                         + fundamental.computed + entryPlan.computed,
          report   |->
            [ symbol          |-> normalized,
              currentPrice    |-> currentPrice,
              targetConsensus |-> targetConsensus.value,
              sentiment       |-> sentiment.value,
              fundamental     |-> fundamental.value,
              entryPlan       |-> entryPlan.value,
              comparisons     |->
                [ fundamentals |->
                    [ n \in 1..Len(context.fundamentalModels) |->
                        Summarize(context.fundamentalModels[n], normalized, currentPrice) ],
                  entries |->
                    [ n \in 1..Len(context.entryPointModels) |->
                        Plan(context.entryPointModels[n], normalized, currentPrice) ] ] ] ]

\* buildTickerReportCached as a function of the store: the tickers map after
\* the four getOrCompute calls, the report, and how often compute ran
CachedReportOf(tk, g, symbol, currentPrice, contextId, fundamentalModelId, entryModelId, now) ==
    LET context          == GetAnalysisContext(contextId)
        normalized       == ToUpperCase(symbol)
        fundamentalModel == GetFundamentalModel(context, fundamentalModelId)
        entryModel       == GetEntryPointModel(context, entryModelId)
        targetConsensus  == GetOrComputeOf(tk, g, normalized, "target-consensus",
                                           BuildTargetConsensus(normalized, currentPrice), now)
        sentiment        == GetOrComputeOf(targetConsensus.tickers, g, normalized, "sentiment",
                                           SentimentBuild(context.sentimentEngine, normalized,
                                                          << >>),
                                           now)
        fundamental      == GetOrComputeOf(sentiment.tickers, g, normalized,
                                           FundamentalKey(fundamentalModel),
                                           Summarize(fundamentalModel, normalized, currentPrice),
                                           now)
        entryPlan        == GetOrComputeOf(fundamental.tickers, g, normalized,
                                           EntryKey(entryModel),
                                           Plan(entryModel, normalized, currentPrice), now)
    IN  [ tickers  |-> entryPlan.tickers,
          computed |-> targetConsensus.computed + sentiment.computed
                         + fundamental.computed + entryPlan.computed,
          report   |->
            [ symbol          |-> normalized,
              currentPrice    |-> currentPrice,
              targetConsensus |-> targetConsensus.value,
              sentiment       |-> sentiment.value,
              fundamental     |-> fundamental.value,
              entryPlan       |-> entryPlan.value,
              comparisons     |->
                [ fundamentals |->
                    [ n \in 1..Len(context.fundamentalModels) |->
                        Summarize(context.fundamentalModels[n], normalized, currentPrice) ],
                  entries |->
                    [ n \in 1..Len(context.entryPointModels) |->
                        Plan(context.entryPointModels[n], normalized, currentPrice) ] ] ] ]

BuildTickerReportCached(symbol, currentPrice, contextId, fundamentalModelId, entryModelId, now) ==
    LET built == CachedReportOf(tickers, globalIntervalMs, symbol, currentPrice, contextId,
                                fundamentalModelId, entryModelId, now)
    IN  /\ tickers' = built.tickers
        /\ computeCalls' = computeCalls + built.computed
        /\ ret' = Call("buildTickerReportCached",
                       <<symbol, currentPrice, contextId, fundamentalModelId, entryModelId, now>>,
                       << built.report >>)
        /\ UNCHANGED globalIntervalMs

\* registry: `export const metadataStorage = new InMemoryTickerMetadataStorage()`
InitReport ==
    /\ globalIntervalMs = DefaultGlobalIntervalMs
    /\ tickers = EmptyMap
    /\ computeCalls = 0
    /\ ret = Call("new", << >>, << >>)
    /\ log = << >>
    /\ heap = << >>
    /\ held = {}
    /\ pending = << >>
    /\ twin = << >>
    /\ watchlists = << >>

NextReport ==
    \/ /\ Len(log) < MaxBuilds
       /\ \E price \in { 180, 190 }, c \in { "default_live", "" },
             f \in { "dcf-core", "quality-factors", "" },
             e \in { "momentum-breakout", "no-such-model" }, now \in { 1000, 2000, 70000 } :
            BuildTickerReportCached(<<"a", "a", "p", "l">>, price, c, f, e, now)
       /\ log' = Append(log, "buildTickerReportCached")
       /\ UNCHANGED refs
    \/ SetGlobalRefreshInterval(60000) /\ UNCHANGED <<log, refs>>

SpecReport == InitReport /\ [][NextReport]_vars

\* the model a request for id selects among models: the one with that id,
\* the first one when there is none
Selected(models, id) ==
    IF \E n \in 1..Len(models) : models[n].id = id
    THEN CHOOSE m \in { models[n] : n \in 1..Len(models) } : m.id = id
    ELSE models[1]

(* C20: buildTickerReportCached uses a distinct slot for each metric and   *)
(* each selected model variant: 'target-consensus', 'sentiment',           *)
(* 'fundamental:<id>' and 'entry:<id>'.  A value stored in slot            *)
(* 'fundamental:<id>' or 'entry:<id>' was produced by the model whose id   *)
(* is <id>, and a build that selects model B never returns a value cached  *)
(* while model A was selected.                                             *)
C20_SlotPerMetricAndModel ==
    /\ \A sym \in DOMAIN tickers :
         \A key \in DOMAIN tickers[sym].history :
           /\ key \in { "target-consensus", "sentiment" }
                \cup { "fundamental:" \o FundamentalModels[n].id : n \in 1..Len(FundamentalModels) }
                \cup { "entry:" \o EntryPointModels[n].id : n \in 1..Len(EntryPointModels) }
           /\ \A i \in 1..Len(tickers[sym].history[key]) :
                LET value == tickers[sym].history[key][i].value
                IN  /\ key \in { "target-consensus", "sentiment" } => value.metric = key
                    /\ \A n \in 1..Len(FundamentalModels) :
                         key = "fundamental:" \o FundamentalModels[n].id
                           => value.model = FundamentalModels[n].name
                    /\ \A n \in 1..Len(EntryPointModels) :
                         key = "entry:" \o EntryPointModels[n].id
                           => value.model = EntryPointModels[n].name
           /\ tickers[sym].latest[key].value
                = tickers[sym].history[key][Len(tickers[sym].history[key])].value
    /\ ret.op = "buildTickerReportCached" =>
         LET report == ret.out[1]
             f      == Selected(FundamentalModels, ret.args[4])
             e      == Selected(EntryPointModels, ret.args[5])
             latest == tickers[report.symbol].latest
         IN  /\ report.fundamental.model = f.name
             /\ report.entryPlan.model = e.name
             /\ report.targetConsensus.metric = "target-consensus"
             /\ report.sentiment.metric = "sentiment"
             /\ Cardinality({ "target-consensus", "sentiment",
                              "fundamental:" \o f.id, "entry:" \o e.id }) = 4
             /\ { "target-consensus", "sentiment", "fundamental:" \o f.id, "entry:" \o e.id }
                  \subseteq DOMAIN latest
             /\ report.targetConsensus = latest["target-consensus"].value
             /\ report.sentiment = latest["sentiment"].value
             /\ report.fundamental = latest["fundamental:" \o f.id].value
             /\ report.entryPlan = latest["entry:" \o e.id].value

\* a build that selected Quality Factors was served the target consensus
\* cached by an earlier build (computed for another price) while the summary
\* cached for DCF Core sits in its own slot
C20_Witness ==
    /\ ret.op = "buildTickerReportCached"
    /\ ret.args[4] = "quality-factors"
    /\ ret.out[1].fundamental.model = "Quality Factors"
    /\ ret.out[1].targetConsensus.price # ret.args[2]
    /\ "fundamental:dcf-core" \in DOMAIN tickers[ret.out[1].symbol].latest
    /\ ~ShouldRefreshOf(tickers, globalIntervalMs, ret.args[1], "fundamental:dcf-core",
                        ret.args[6])


----------------------------------------------------------------------------
(* A series of cached builds of one symbol at increasing times (registry    *)
(* cache tests): log holds the `now` of each build made so far.            *)

SeriesSymbol == <<"m", "s", "f", "t">>

SeriesTimes == { 1000, 1500, 2100, 70000 }

SeriesBuild(currentPrice, fundamentalModelId, now) ==
    /\ log # << >> => now > log[Len(log)]
    /\ BuildTickerReportCached(SeriesSymbol, currentPrice, "", fundamentalModelId, "", now)
    /\ log' = Append(log, now)
    /\ UNCHANGED refs

NextSeries ==
    \/ \E price \in { 180, 190 }, f \in { "dcf-core", "quality-factors" }, now \in SeriesTimes :
         SeriesBuild(price, f, now)
    \/ SetGlobalRefreshInterval(60000) /\ UNCHANGED <<log, refs>>
    \/ SetTickerRefreshInterval(SeriesSymbol, "sentiment", 1000) /\ UNCHANGED <<log, refs>>

SpecSeries == InitReport /\ [][NextSeries]_vars

\* the slot is empty or its effective interval has elapsed at now
SlotDue(tk, g, symbol, key, now) ==
    \/ SlotLatest(tk, symbol, key) = << >>
    \/ now - SlotLatest(tk, symbol, key)[1].computedAt >= EffectiveInterval(tk, g, symbol, key)

\* the four slots a cached build with these model ids uses, each with the
\* report field that carries its value
ReportSlots(report, fundamentalModelId, entryModelId) ==
    { <<"target-consensus", report.targetConsensus>>,
      <<"sentiment", report.sentiment>>,
      <<"fundamental:" \o Selected(FundamentalModels, fundamentalModelId).id, report.fundamental>>,
      <<"entry:" \o Selected(EntryPointModels, entryModelId).id, report.entryPlan>> }

(* C21: in a series of buildTickerReportCached calls on one symbol at      *)
(* increasing times, the history of each metric slot grows by one exactly  *)
(* at the calls where the slot is empty or its own effective interval (the *)
(* per-key override, else the global interval) has elapsed since its last  *)
(* write, independently of the other metrics; at every other call the slot *)
(* is left as it was and the report carries the cached value, also when a  *)
(* different currentPrice is passed.                                       *)
C21_HistoryGrowsWhenOwnIntervalElapsed ==
    [][ (ret'.op = "buildTickerReportCached" /\ log' # log) =>
          LET args == ret'.args
              now  == args[6]
          IN  \A slot \in ReportSlots(ret'.out[1], args[4], args[5]) :
                IF SlotDue(tickers, globalIntervalMs, args[1], slot[1], now)
                THEN /\ Len(SlotHistory(tickers', args[1], slot[1]))
                          = Len(SlotHistory(tickers, args[1], slot[1])) + 1
                     /\ SlotLatest(tickers', args[1], slot[1])[1].computedAt = now
                ELSE /\ SlotHistory(tickers', args[1], slot[1])
                          = SlotHistory(tickers, args[1], slot[1])
                     /\ SlotLatest(tickers', args[1], slot[1])
                          = SlotLatest(tickers, args[1], slot[1])
                     /\ slot[2] = SlotLatest(tickers, args[1], slot[1])[1].value ]_vars

\* the third build of a series found the sentiment override elapsed and the
\* target consensus still fresh: sentiment has two entries, the consensus
\* one, and the report carries the consensus cached for another price
C21_Witness ==
    /\ Len(log) = 3
    /\ ret.op = "buildTickerReportCached"
    /\ Len(SlotHistory(tickers, SeriesSymbol, "sentiment")) = 2
    /\ Len(SlotHistory(tickers, SeriesSymbol, "target-consensus")) = 1
    /\ SlotLatest(tickers, SeriesSymbol, "sentiment")[1].computedAt = ret.args[6]
    /\ ret.out[1].targetConsensus.price # ret.args[2]


----------------------------------------------------------------------------
(* Report builds over provider data (registry, trading).  What a provider  *)
(* call yields is an input of the build: a price outcome is a finite       *)
(* price, null, or an exception; a news outcome is a list of signals,      *)
(* possibly empty, or an exception.  Prices are in thousandths, so that    *)
(* toFixed(2) is a rounding to the nearest ten.  Builds do not overlap:    *)
(* a build is one step, taken when its last provider call has settled.     *)

\* builds made under SpecLive
MaxLiveBuilds == 2

LiveSymbol == <<"m", "s", "f", "t">>

LiveTimes == { 1000, 2000, 901000 }

\* 222.22 and 203.554
ProviderPrices == { 222220, 203554 }

PriceOutcomes ==
    { [kind |-> "price", value |-> p] : p \in ProviderPrices }
      \cup { [kind |-> "null", value |-> 0], [kind |-> "throws", value |-> 0] }

NewsOutcomes ==
    { [kind |-> "signals", signals |-> <<"Weak demand miss">>],
      [kind |-> "signals", signals |-> << >>],
      [kind |-> "throws", signals |-> << >>] }

\* Number(x.toFixed(2)) for x >= 0 in thousandths
ToFixed2(x) == ((x + 5) \div 10) * 10

\* char.charCodeAt(0) of an upper-case letter
CharCodeAt(c) ==
    LET letters == <<"A", "B", "C", "D", "E", "F", "G", "H", "I", "J", "K", "L", "M",
                     "N", "O", "P", "Q", "R", "S", "T", "U", "V", "W", "X", "Y", "Z">>
    IN  64 + CHOOSE n \in 1..26 : letters[n] = c

\* the sum of the char codes of the symbol
RECURSIVE SymbolSum(_)
SymbolSum(symbol) ==
    IF symbol = << >> THEN 0 ELSE CharCodeAt(Head(symbol)) + SymbolSum(Tail(symbol))

\* anchorPrice: 45 + sum % 200 + (sum % 13) * 0.8, to two decimals
AnchorPrice(symbol) ==
    ToFixed2((45 + (SymbolSum(symbol) % 200)) * 1000 + (SymbolSum(symbol) % 13) * 800)

\* the warnings pushed around the price provider call
PriceWarnings(context, priceOutcome) ==
    (IF priceOutcome.kind = "throws" THEN << "Price provider error" >> ELSE << >>)
      \o (IF priceOutcome.kind # "price"
          THEN << "Price unavailable from " \o context.tickerPriceProvider >>
          ELSE << >>)

\* the signals held after the news provider call
NewsSignals(newsOutcome) ==
    IF newsOutcome.kind = "signals" THEN newsOutcome.signals ELSE << >>

\* the warnings pushed around the news provider call
NewsWarnings(context, newsOutcome) ==
    (IF newsOutcome.kind = "throws" THEN << "News provider error" >> ELSE << >>)
      \o (IF Len(NewsSignals(newsOutcome)) = 0
          THEN << "No signals returned from " \o context.newsProvider >>
          ELSE << >>)

\* the price of the report that falls back to the mock anchor price
CurrentPriceOfMockFallback(symbol, priceOutcome, latestPrice) ==
    IF priceOutcome.kind = "price"
    THEN ToFixed2(priceOutcome.value)
    ELSE AnchorPrice(symbol)

\* the price of the report: the provider's, else the last one stored, else 0
CurrentPriceOf(symbol, priceOutcome, latestPrice) ==
    IF priceOutcome.kind = "price"
    THEN ToFixed2(priceOutcome.value)
    ELSE ToFixed2(IF latestPrice # << >> THEN latestPrice[1].value ELSE 0)


\* buildTickerReport that goes through the cache like buildTickerReportCached
BuildTickerReportThroughCache(symbol, currentPrice, contextId, fundamentalModelId, entryModelId) ==
    LET built == CachedReportOf(tickers, globalIntervalMs, symbol, currentPrice, contextId,
                                fundamentalModelId, entryModelId, 2000)
    IN  /\ tickers' = built.tickers
        /\ computeCalls' = computeCalls + built.computed
        /\ ret' = Call("buildTickerReport",
                       <<symbol, currentPrice, contextId, fundamentalModelId, entryModelId>>,
                       << built.report >>)
        /\ UNCHANGED globalIntervalMs

\* buildTickerReport: no store access
BuildTickerReport(symbol, currentPrice, contextId, fundamentalModelId, entryModelId) ==
    /\ ret' = Call("buildTickerReport",
                   <<symbol, currentPrice, contextId, fundamentalModelId, entryModelId>>,
                   << TickerReportOf(symbol, currentPrice, contextId, fundamentalModelId,
                                     entryModelId) >>)
    /\ UNCHANGED <<globalIntervalMs, tickers, computeCalls>>

\* buildTickerReportWithContext after buildTickerReportCached has returned
\* report over the store tk: the sentiment and target consensus re-checks
LiveMergeOf(tk, g, context, normalized, currentPrice, newsSignals, report, now) ==
    LET sentimentDue == /\ Len(newsSignals) > 0
                        /\ ShouldRefreshOf(tk, g, normalized, "sentiment", now)
        digest       == SentimentBuild(context.sentimentEngine, normalized, newsSignals)
        afterDigest  == IF sentimentDue
                        THEN UpsertStore(tk, normalized, "sentiment", digest, now)
                        ELSE tk
        sentiment    == IF sentimentDue THEN digest
                        ELSE IF LatestOf(tk, normalized, "sentiment") # << >>
                             THEN LatestOf(tk, normalized, "sentiment")[1].value
                             ELSE digest
        consensusDue == ShouldRefreshOf(afterDigest, g, normalized, "target-consensus", now)
        consensus    == BuildTargetConsensus(normalized, currentPrice)
    IN  [ tickers |-> IF consensusDue
                      THEN UpsertStore(afterDigest, normalized, "target-consensus",
                                       consensus, now)
                      ELSE afterDigest,
          report  |-> [ report EXCEPT
                          !.sentiment = sentiment,
                          !.targetConsensus =
                             IF consensusDue THEN consensus
                             ELSE IF LatestOf(tk, normalized, "target-consensus") # << >>
                                  THEN LatestOf(tk, normalized, "target-consensus")[1].value
                                  ELSE report.targetConsensus ] ]

\* the store after the price provider call: a finite price is stored under
\* 'current-price', and getLatest ensures the ticker state either way
PriceStepOf(tk, normalized, priceOutcome, now) ==
    IF priceOutcome.kind = "price"
    THEN UpsertStore(tk, normalized, "current-price", priceOutcome.value, now)
    ELSE EnsureTickerState(tk, normalized)

\* buildTickerReportWithContext, from the settled provider calls on
BuildTickerReportWithContext(symbol, contextId, fundamentalModelId, entryModelId, now, priceOutcome, newsOutcome) ==
    LET context      == GetAnalysisContext(contextId)
        normalized   == ToUpperCase(symbol)
        afterPrice   == PriceStepOf(tickers, normalized, priceOutcome, now)
        latestPrice  == LatestOf(afterPrice, normalized, "current-price")
        currentPrice == CurrentPriceOf(normalized, priceOutcome, latestPrice)
        built        == CachedReportOf(afterPrice, globalIntervalMs, normalized, currentPrice,
                                       context.id, fundamentalModelId, entryModelId, now)
        merged       == LiveMergeOf(built.tickers, globalIntervalMs, context, normalized,
                                    currentPrice, NewsSignals(newsOutcome), built.report, now)
    IN  /\ tickers' = merged.tickers
        /\ computeCalls' = computeCalls + built.computed
        /\ ret' = Call("buildTickerReportWithContext",
                       <<symbol, contextId, fundamentalModelId, entryModelId, now,
                         priceOutcome, newsOutcome>>,
                       << [ report |-> merged.report,
                            context |-> context.id,
                            providerWarnings |-> PriceWarnings(context, priceOutcome)
                                                   \o NewsWarnings(context, newsOutcome),
                            liveSources |->
                              [ market |-> IF priceOutcome.kind = "price"
                                           THEN << context.tickerPriceProvider >>
                                           ELSE IF latestPrice # << >>
                                                THEN << "cache:current-price" >>
                                                ELSE << "unavailable:current-price" >>,
                                news   |-> IF Len(NewsSignals(newsOutcome)) > 0
                                           THEN << context.newsProvider >>
                                           ELSE << "unavailable:news-signals" >> ] ] >>)
        /\ UNCHANGED globalIntervalMs

\* trading buildTicker, from the settled provider calls on; the ticker's id
\* is a fresh uid and is not kept, its changes are determined by the digest
BuildTicker(symbol, contextId, priceOutcome, newsOutcome) ==
    LET normalized == ToUpperCase(symbol)
        context    == GetAnalysisContext(contextId)
        signals    == NewsSignals(newsOutcome)
        sentiment  == SentimentBuild(context.sentimentEngine, normalized, signals)
    IN  /\ ret' = Call("buildTicker", <<symbol, contextId, priceOutcome, newsOutcome>>,
                       << [ symbol |-> normalized,
                            currentPrice |-> IF priceOutcome.kind = "price"
                                             THEN ToFixed2(priceOutcome.value)
                                             ELSE 0,
                            changes |-> IF Len(signals) > 0 THEN << sentiment >> ELSE << >>,
                            alerts |-> << >>,
                            providerWarnings |-> PriceWarnings(context, priceOutcome)
                                                   \o NewsWarnings(context, newsOutcome) ] >>)
        /\ UNCHANGED <<globalIntervalMs, tickers, computeCalls>>

\* what fetchLiveSnapshot can return for a symbol: a price or null, a
\* target consensus only next to a price, a sentiment digest or null
LiveSnapshots(symbol) ==
    { [ currentPrice    |-> price,
        targetConsensus |-> consensus,
        sentiment       |-> sentiment ] :
        price \in { << 203554 >>, << >> },
        consensus \in { << [metric |-> "target-consensus", symbol |-> symbol,
                            source |-> "yahoo-finance"] >>, << >> },
        sentiment \in { << [metric |-> "sentiment", symbol |-> symbol,
                            source |-> "financial-times-rss"] >>, << >> } }
      \ { snapshot \in [ currentPrice : { << >> },
                         targetConsensus : { << [metric |-> "target-consensus",
                                                 symbol |-> symbol,
                                                 source |-> "yahoo-finance"] >> },
                         sentiment : { << [metric |-> "sentiment", symbol |-> symbol,
                                           source |-> "financial-times-rss"] >>, << >> } ] :
            TRUE }

\* the merge that puts the live values into the report without storing them
SnapshotMergeOfReportOnly(tk, normalized, snapshot, shouldRefreshTarget, shouldRefreshSentiment, report, now) ==
    [ tickers |-> tk,
      report  |-> [ report EXCEPT
                      !.targetConsensus =
                         IF snapshot.targetConsensus # << >> /\ shouldRefreshTarget
                         THEN snapshot.targetConsensus[1]
                         ELSE LatestOf(tk, normalized, "target-consensus")[1].value,
                      !.sentiment =
                         IF snapshot.sentiment # << >> /\ shouldRefreshSentiment
                         THEN snapshot.sentiment[1]
                         ELSE LatestOf(tk, normalized, "sentiment")[1].value ] ]

\* buildTickerReportLive after buildTickerReportCached has returned report
\* over the store tk: a live value is stored and reported where the slot was
\* due before the cached build, the store's latest is reported otherwise
SnapshotMergeOf(tk, normalized, snapshot, shouldRefreshTarget, shouldRefreshSentiment, report, now) ==
    LET liveTarget  == snapshot.targetConsensus # << >> /\ shouldRefreshTarget
        afterTarget == IF liveTarget
                       THEN UpsertStore(tk, normalized, "target-consensus",
                                        snapshot.targetConsensus[1], now)
                       ELSE tk
        liveDigest  == snapshot.sentiment # << >> /\ shouldRefreshSentiment
    IN  [ tickers |-> IF liveDigest
                      THEN UpsertStore(afterTarget, normalized, "sentiment",
                                       snapshot.sentiment[1], now)
                      ELSE afterTarget,
          report  |-> [ report EXCEPT
                          !.targetConsensus =
                             IF liveTarget THEN snapshot.targetConsensus[1]
                             ELSE IF LatestOf(tk, normalized, "target-consensus") # << >>
                                  THEN LatestOf(tk, normalized, "target-consensus")[1].value
                                  ELSE report.targetConsensus,
                          !.sentiment =
                             IF liveDigest THEN snapshot.sentiment[1]
                             ELSE IF LatestOf(afterTarget, normalized, "sentiment") # << >>
                                  THEN LatestOf(afterTarget, normalized, "sentiment")[1].value
                                  ELSE report.sentiment ] ]

\* buildTickerReportLive, from the settled snapshot on.  optsNow is opts.now,
\* << >> when absent: then `now` is the clock read at the start of the call
\* (dateNow) and buildTickerReportCached reads the clock again (dateNowCached)
BuildTickerReportLive(symbol, fundamentalModelId, entryModelId, optsNow, snapshot, dateNow, dateNowCached) ==
    LET normalized   == ToUpperCase(symbol)
        now          == IF optsNow # << >> THEN optsNow[1] ELSE dateNow
        cachedNow    == IF optsNow # << >> THEN optsNow[1] ELSE dateNowCached
        currentPrice == IF snapshot.currentPrice # << >>
                        THEN snapshot.currentPrice[1]
                        ELSE AnchorPrice(normalized)
        built        == CachedReportOf(tickers, globalIntervalMs, normalized, currentPrice, "",
                                       fundamentalModelId, entryModelId, cachedNow)
        merged       == SnapshotMergeOf(built.tickers, normalized, snapshot,
                                        ShouldRefreshOf(tickers, globalIntervalMs, normalized,
                                                        "target-consensus", now),
                                        ShouldRefreshOf(tickers, globalIntervalMs, normalized,
                                                        "sentiment", now),
                                        built.report, now)
    IN  /\ optsNow = << >> => dateNow <= dateNowCached
        /\ optsNow # << >> => dateNow = optsNow[1] /\ dateNowCached = optsNow[1]
        /\ tickers' = merged.tickers
        /\ computeCalls' = computeCalls + built.computed
        /\ ret' = Call("buildTickerReportLive",
                       <<symbol, fundamentalModelId, entryModelId, optsNow, snapshot,
                         dateNow, dateNowCached>>,
                       << [ report |-> merged.report,
                            liveSources |->
                              [ market |-> (IF snapshot.currentPrice # << >>
                                            THEN << "stooq" >> ELSE << >>)
                                           \o (IF snapshot.targetConsensus # << >>
                                               THEN << "yahoo-finance" >> ELSE << >>),
                                news   |-> IF snapshot.sentiment # << >>
                                           THEN << "financial-times-rss", "nitter-rss" >>
                                           ELSE << >> ] ] >>)
        /\ UNCHANGED globalIntervalMs

NextLive ==
    \/ /\ Len(log) < MaxLiveBuilds
       /\ \E price \in { 180000, 190000 }, f \in { "dcf-core", "quality-factors" } :
            BuildTickerReport(LiveSymbol, price, "default_live", f, "")
       /\ log' = Append(log, "buildTickerReport")
       /\ UNCHANGED refs
    \/ /\ Len(log) < MaxLiveBuilds
       /\ \E price \in { 180000, 190000 }, f \in { "dcf-core", "quality-factors" },
             now \in LiveTimes :
            BuildTickerReportCached(LiveSymbol, price, "default_live", f, "", now)
       /\ log' = Append(log, "buildTickerReportCached")
       /\ UNCHANGED refs
    \/ /\ Len(log) < MaxLiveBuilds
       /\ \E now \in LiveTimes, priceOutcome \in PriceOutcomes, newsOutcome \in NewsOutcomes :
            BuildTickerReportWithContext(LiveSymbol, "default_live", "", "", now,
                                         priceOutcome, newsOutcome)
       /\ log' = Append(log, "buildTickerReportWithContext")
       /\ UNCHANGED refs
    \/ /\ Len(log) < MaxLiveBuilds
       /\ \E optsNow \in { << >> } \cup { << t >> : t \in LiveTimes },
             snapshot \in LiveSnapshots(ToUpperCase(LiveSymbol)),
             dateNow \in LiveTimes, dateNowCached \in LiveTimes :
            BuildTickerReportLive(LiveSymbol, "", "", optsNow, snapshot, dateNow, dateNowCached)
       /\ log' = Append(log, "buildTickerReportLive")
       /\ UNCHANGED refs
    \/ /\ Len(log) < MaxLiveBuilds
       /\ \E priceOutcome \in PriceOutcomes, newsOutcome \in NewsOutcomes :
            BuildTicker(LiveSymbol, "default_live", priceOutcome, newsOutcome)
       /\ log' = Append(log, "buildTicker")
       /\ UNCHANGED refs

SpecLive == InitReport /\ [][NextLive]_vars


\* the slot keys of the cached metrics
MetricKeys ==
    { "target-consensus", "sentiment" }
      \cup { "fundamental:" \o FundamentalModels[n].id : n \in 1..Len(FundamentalModels) }
      \cup { "entry:" \o EntryPointModels[n].id : n \in 1..Len(EntryPointModels) }

(* C22: the spot price is never cached.  No report build (buildTickerReport, *)
(* buildTickerReportCached, buildTickerReportLive,                          *)
(* buildTickerReportWithContext) writes a price into the store: the only    *)
(* slots written are 'target-consensus', 'sentiment', 'fundamental:<id>'    *)
(* and 'entry:<id>'; and the currentPrice of a report is never read back    *)
(* from the store: without a provider price it does not depend on what the  *)
(* store holds.                                                             *)
C22_SpotPriceNeverCached ==
    /\ \A sym \in DOMAIN tickers :
         /\ DOMAIN tickers[sym].latest \subseteq MetricKeys
         /\ DOMAIN tickers[sym].history \subseteq MetricKeys
    /\ (ret.op = "buildTickerReportWithContext" /\ ret.args[6].kind # "price")
         => ret.out[1].report.currentPrice = 0


(* C23: the comparison arrays of a cached report are always freshly         *)
(* computed, never cached: they hold the output of every registered         *)
(* fundamental model and every registered entry model for the currentPrice  *)
(* of that call, and the call creates or writes no store slot for a model   *)
(* variant that was not selected.                                           *)
C23_ComparisonsFreshAndUncached ==
    [][ (ret'.op = "buildTickerReportCached" /\ log' # log) =>
          LET report   == ret'.out[1]
              price    == ret'.args[2]
              selected == { "fundamental:" \o Selected(FundamentalModels, ret'.args[4]).id,
                            "entry:" \o Selected(EntryPointModels, ret'.args[5]).id }
          IN  /\ Len(report.comparisons.fundamentals) = Len(FundamentalModels)
              /\ \A n \in 1..Len(FundamentalModels) :
                   report.comparisons.fundamentals[n]
                     = [model |-> FundamentalModels[n].name, symbol |-> report.symbol,
                        price |-> price]
              /\ Len(report.comparisons.entries) = Len(EntryPointModels)
              /\ \A n \in 1..Len(EntryPointModels) :
                   report.comparisons.entries[n]
                     = [model |-> EntryPointModels[n].name, symbol |-> report.symbol,
                        price |-> price]
              /\ \A key \in (MetricKeys \ { "target-consensus", "sentiment" }) \ selected :
                   /\ SlotLatest(tickers', ret'.args[1], key)
                        = SlotLatest(tickers, ret'.args[1], key)
                   /\ SlotHistory(tickers', ret'.args[1], key)
                        = SlotHistory(tickers, ret'.args[1], key) ]_vars

\* a build was served the DCF Core summary cached for another price, its
\* comparison arrays hold the summaries for the price of the call, and the
\* Quality Factors variant, not selected so far, has no slot
C23_Witness ==
    /\ ret.op = "buildTickerReportCached"
    /\ ret.out[1].fundamental.model = "DCF Core"
    /\ ret.out[1].fundamental.price # ret.args[2]
    /\ ret.out[1].comparisons.fundamentals[1].price = ret.args[2]
    /\ ret.out[1].comparisons.fundamentals[1].model = "DCF Core"
    /\ SlotLatest(tickers, ret.args[1], "fundamental:dcf-core") # << >>
    /\ SlotLatest(tickers, ret.args[1], "fundamental:quality-factors") = << >>


(* C24: buildTickerReport bypasses the cache.  It neither reads nor writes  *)
(* the store: the store is the same before and after the call, also when    *)
(* fresh cached values exist for the symbol, and every metric of the report *)
(* is computed from the symbol and the currentPrice passed.                 *)
C24_BuildTickerReportBypassesCache ==
    [][ (ret'.op = "buildTickerReport" /\ log' # log) =>
          LET report == ret'.out[1]
              price  == ret'.args[2]
              symbol == ToUpperCase(ret'.args[1])
          IN  /\ tickers' = tickers
              /\ globalIntervalMs' = globalIntervalMs
              /\ computeCalls' = computeCalls
              /\ report.symbol = symbol
              /\ report.currentPrice = price
              /\ report.targetConsensus
                   = [metric |-> "target-consensus", symbol |-> symbol, price |-> price]
              /\ report.sentiment
                   = [metric |-> "sentiment", engine |-> "weighted-headline", symbol |-> symbol,
                      signals |-> <<"context fallback headlines", "context fallback headlines">>]
              /\ report.fundamental
                   = [model |-> Selected(FundamentalModels, ret'.args[4]).name,
                      symbol |-> symbol, price |-> price]
              /\ report.entryPlan
                   = [model |-> Selected(EntryPointModels, ret'.args[5]).name,
                      symbol |-> symbol, price |-> price]
              /\ \A n \in 1..Len(FundamentalModels) :
                   report.comparisons.fundamentals[n].price = price
              /\ \A n \in 1..Len(EntryPointModels) :
                   report.comparisons.entries[n].price = price ]_vars

\* buildTickerReport returned while the store held, for the same symbol and
\* the same fundamental model, values cached for another price and still
\* fresh at the time of their write
C24_Witness ==
    /\ ret.op = "buildTickerReport"
    /\ Len(log) = 2
    /\ log[1] = "buildTickerReportCached"
    /\ SlotLatest(tickers, ret.args[1], "target-consensus") # << >>
    /\ SlotLatest(tickers, ret.args[1], "target-consensus")[1].value
         # ret.out[1].targetConsensus
    /\ SlotLatest(tickers, ret.args[1], "fundamental:" \o ret.args[4]) # << >>
    /\ SlotLatest(tickers, ret.args[1], "fundamental:" \o ret.args[4])[1].value
         # ret.out[1].fundamental


\* the two metrics a live snapshot can provide, each with the snapshot field
\* and the report field that carry it
LiveMetrics(snapshot, report) ==
    { <<"target-consensus", snapshot.targetConsensus, report.targetConsensus>>,
      <<"sentiment", snapshot.sentiment, report.sentiment>> }

(* C25: in buildTickerReportLive, for target-consensus and for sentiment:   *)
(* if the live snapshot provides a value and shouldRefresh for that metric  *)
(* was true when checked before buildTickerReportCached ran, then after the *)
(* call the store's latest for that metric is the live value with           *)
(* computedAt = now, and the report carries the live value.                 *)
C25_DueMetricTakesLiveValue ==
    [][ (ret'.op = "buildTickerReportLive" /\ log' # log) =>
          \A metric \in LiveMetrics(ret'.args[5], ret'.out[1].report) :
            (/\ metric[2] # << >>
             /\ SlotDue(tickers, globalIntervalMs, ret'.args[1], metric[1], ret'.args[6]))
              => /\ SlotLatest(tickers', ret'.args[1], metric[1])
                      = << [key |-> metric[1], value |-> metric[2][1],
                            computedAt |-> ret'.args[6]] >>
                 /\ metric[3] = metric[2][1] ]_vars

\* a live build found the sentiment written by an earlier build stale, and
\* the snapshot's digest is now the store's latest and in the report
C25_Witness ==
    /\ ret.op = "buildTickerReportLive"
    /\ Len(log) = 2
    /\ ret.args[5].sentiment # << >>
    /\ ret.args[6] = 901000
    /\ Len(SlotHistory(tickers, ret.args[1], "sentiment")) = 3
    /\ SlotHistory(tickers, ret.args[1], "sentiment")[1].computedAt = 1000
    /\ SlotLatest(tickers, ret.args[1], "sentiment")[1].value = ret.args[5].sentiment[1]
    /\ ret.out[1].report.sentiment = ret.args[5].sentiment[1]


\* the `now` of a live build, from the arguments of the call
LiveNow(call) ==
    IF call.op = "buildTickerReportLive" THEN call.args[6] ELSE call.args[5]

\* during the step the slot was left as it was and the report field carries
\* the value the slot held before the step
ServedFromCache(symbol, key, carried) ==
    /\ SlotLatest(tickers', symbol, key) = SlotLatest(tickers, symbol, key)
    /\ SlotHistory(tickers', symbol, key) = SlotHistory(tickers, symbol, key)
    /\ carried = SlotLatest(tickers, symbol, key)[1].value

(* C26: the cache staleness policy has final authority in live builds.  If  *)
(* target-consensus or sentiment was not due at the start of a              *)
(* buildTickerReportLive or buildTickerReportWithContext call, the report   *)
(* carries the store's cached latest for that metric and the call writes    *)
(* nothing to that metric's slot, whatever the live provider returned.      *)
C26_NotDueMetricServedFromCache ==
    [][ (ret'.op \in { "buildTickerReportLive", "buildTickerReportWithContext" }
           /\ log' # log) =>
          /\ ~SlotDue(tickers, globalIntervalMs, ret'.args[1], "target-consensus", LiveNow(ret'))
               => ServedFromCache(ret'.args[1], "target-consensus",
                                  ret'.out[1].report.targetConsensus)
          /\ ~SlotDue(tickers, globalIntervalMs, ret'.args[1], "sentiment", LiveNow(ret'))
               => ServedFromCache(ret'.args[1], "sentiment", ret'.out[1].report.sentiment) ]_vars

\* the same for the calls in which one clock reading decides: every
\* buildTickerReportWithContext call, and the buildTickerReportLive calls whose
\* embedded cached build saw the `now` of the call
C26_NotDueServedFromCacheUnderOneClock ==
    [][ (ret'.op \in { "buildTickerReportLive", "buildTickerReportWithContext" }
           /\ log' # log
           /\ (ret'.op = "buildTickerReportLive" => ret'.args[6] = ret'.args[7])) =>
          /\ ~SlotDue(tickers, globalIntervalMs, ret'.args[1], "target-consensus", LiveNow(ret'))
               => ServedFromCache(ret'.args[1], "target-consensus",
                                  ret'.out[1].report.targetConsensus)
          /\ ~SlotDue(tickers, globalIntervalMs, ret'.args[1], "sentiment", LiveNow(ret'))
               => ServedFromCache(ret'.args[1], "sentiment", ret'.out[1].report.sentiment) ]_vars


(* C27: in buildTickerReportWithContext, when the news provider returns at  *)
(* least one signal and the sentiment slot was due at the start of the      *)
(* call, the sentiment that ends up stored as latest and carried by the     *)
(* report is the digest built from those fetched signals, not a digest      *)
(* built from an empty signal list.                                         *)
C27_DueSentimentBuiltFromFetchedSignals ==
    [][ (/\ ret'.op = "buildTickerReportWithContext"
         /\ log' # log
         /\ ret'.args[7].kind = "signals"
         /\ Len(ret'.args[7].signals) > 0
         /\ SlotDue(tickers, globalIntervalMs, ret'.args[1], "sentiment", ret'.args[5])) =>
          /\ SlotLatest(tickers', ret'.args[1], "sentiment") # << >>
          /\ SlotLatest(tickers', ret'.args[1], "sentiment")[1].value.signals
               = ret'.args[7].signals
          /\ ret'.out[1].report.sentiment.signals = ret'.args[7].signals ]_vars


\* the price the price provider of a live build returned: <<p>>, or << >>
\* when it returned none
ProvidedPrice(call) ==
    IF call.op = "buildTickerReportLive" THEN call.args[5].currentPrice
    ELSE IF call.args[6].kind = "price" THEN << call.args[6].value >> ELSE << >>

\* the news provider of a live build returned at least one item
ProvidedNews(call) ==
    IF call.op = "buildTickerReportLive" THEN call.args[5].sentiment # << >>
    ELSE call.args[7].kind = "signals" /\ Len(call.args[7].signals) > 0

(* C28: a live report build for a symbol whose sentiment slot is empty,     *)
(* where the price provider returns a positive finite price p and the news  *)
(* provider returns at least one news item, returns a report whose          *)
(* currentPrice is exactly p and leaves the sentiment history with exactly  *)
(* one entry (not 0, not 2).                                                *)
C28_LiveBuildOnEmptySlot ==
    [][ (/\ ret'.op \in { "buildTickerReportLive", "buildTickerReportWithContext" }
         /\ log' # log
         /\ SlotLatest(tickers, ret'.args[1], "sentiment") = << >>
         /\ ProvidedPrice(ret') # << >>
         /\ ProvidedNews(ret')) =>
          /\ ret'.out[1].report.currentPrice = ProvidedPrice(ret')[1]
          /\ Len(SlotHistory(tickers', ret'.args[1], "sentiment")) = 1 ]_vars


\* the elements of a sequence
Range(seq) == { seq[n] : n \in 1..Len(seq) }

(* C29: a provider failure never fails the build.  For every combination   *)
(* of price outcome (finite, null, throws) and news outcome (signals,       *)
(* empty, throws), buildTickerReportWithContext and trading's buildTicker   *)
(* complete with a result; whenever the price is unavailable or no signals  *)
(* were returned, providerWarnings is non-empty and names the failure; and  *)
(* the price falls back to the last cached value (as a report carries       *)
(* prices, to two decimals) or to 0, never silently to a mock price.        *)
C29_ProviderFailureNeverFailsBuild ==
    ret.op \in { "buildTickerReportWithContext", "buildTicker" } =>
         LET priceOutcome == IF ret.op = "buildTicker" THEN ret.args[3] ELSE ret.args[6]
             newsOutcome  == IF ret.op = "buildTicker" THEN ret.args[4] ELSE ret.args[7]
             result       == ret.out[1]
             currentPrice == IF ret.op = "buildTicker" THEN result.currentPrice
                             ELSE result.report.currentPrice
             cached       == SlotLatest(tickers, ret.args[1], "current-price")
         IN  /\ Len(ret.out) = 1
             /\ priceOutcome.kind # "price" =>
                  /\ "Price unavailable from yahoo-price" \in Range(result.providerWarnings)
                  /\ currentPrice = IF ret.op = "buildTickerReportWithContext" /\ cached # << >>
                                    THEN (cached[1].value \div 10) * 10
                                           + (IF cached[1].value % 10 >= 5 THEN 10 ELSE 0)
                                    ELSE 0
                  /\ (cached = << >> \/ ret.op = "buildTicker") => currentPrice = 0
             /\ priceOutcome.kind = "throws" =>
                  "Price provider error" \in Range(result.providerWarnings)
             /\ (newsOutcome.kind # "signals" \/ newsOutcome.signals = << >>) =>
                  "No signals returned from yahoo-news" \in Range(result.providerWarnings)
             /\ newsOutcome.kind = "throws" =>
                  "News provider error" \in Range(result.providerWarnings)
             /\ (priceOutcome.kind = "price" /\ newsOutcome.kind = "signals"
                   /\ newsOutcome.signals # << >>) => result.providerWarnings = << >>

\* both providers of a buildTickerReportWithContext call threw after an
\* earlier call had stored a price: the call returned a report with four
\* warnings and the stored price, to two decimals
C29_Witness ==
    /\ ret.op = "buildTickerReportWithContext"
    /\ ret.args[6].kind = "throws"
    /\ ret.args[7].kind = "throws"
    /\ Len(ret.out[1].providerWarnings) = 4
    /\ SlotLatest(tickers, ret.args[1], "current-price") # << >>
    /\ SlotLatest(tickers, ret.args[1], "current-price")[1].value = 203554
    /\ ret.out[1].report.currentPrice = 203550
    /\ ret.out[1].liveSources.market = << "cache:current-price" >>

\* both providers of a buildTicker call failed: the ticker has price 0 and
\* the warnings
C29_WitnessBuildTicker ==
    /\ ret.op = "buildTicker"
    /\ ret.args[3].kind = "null"
    /\ ret.args[4].kind = "throws"
    /\ ret.out[1].currentPrice = 0
    /\ Len(ret.out[1].providerWarnings) = 3


----------------------------------------------------------------------------
(* Two store instances constructed with the same interval and driven with  *)
(* the same calls.  The first is held by the variables of the store, the    *)
(* second by twin.  A time parameter left out of a call (nowArg = << >>)    *)
(* takes its default `Date.now()`, read by each instance when it runs.      *)

\* calls made under SpecTwin
MaxTwinCalls == 3

TwinValues == { 70, 71 }

\* the now / computedAt argument of a call: given, or << >> when left out
TwinNowArgs == { << >>, << 0 >>, << 1000 >> }

\* what Date.now() can read
TwinClocks == { 0, 1000 }

\* a method of the store as a function of the instance: the instance after
\* the call and what the call returned
StoreCall(store, op, symbol, key, value, intervalMs, nowArg, clock) ==
    LET g   == store.globalIntervalMs
        tk  == store.tickers
        now == IF nowArg # << >> THEN nowArg[1] ELSE clock
    IN  CASE op = "setGlobalRefreshInterval" ->
               [globalIntervalMs |-> ClampInterval(intervalMs), tickers |-> tk, out |-> << >>]
          [] op = "setTickerRefreshInterval" ->
               [globalIntervalMs |-> g,
                tickers |-> MapSet(EnsureTickerState(tk, symbol), ToUpperCase(symbol),
                                   [ TickerStateOf(tk, symbol) EXCEPT
                                       !.intervals = MapSet(@, key, ClampInterval(intervalMs)) ]),
                out |-> << >>]
          [] op = "getLatest" ->
               [globalIntervalMs |-> g, tickers |-> EnsureTickerState(tk, symbol),
                out |-> LatestOf(tk, symbol, key)]
          [] op = "getHistory" ->
               [globalIntervalMs |-> g, tickers |-> EnsureTickerState(tk, symbol),
                out |-> << HistoryOf(tk, symbol, key) >>]
          [] op = "shouldRefresh" ->
               [globalIntervalMs |-> g, tickers |-> EnsureTickerState(tk, symbol),
                out |-> << ShouldRefreshOf(tk, g, symbol, key, now) >>]
          [] op = "upsert" ->
               [globalIntervalMs |-> g, tickers |-> UpsertStore(tk, symbol, key, value, now),
                out |-> << LatestRecord(key, value, now) >>]
          [] op = "getOrCompute" ->
               [globalIntervalMs |-> g,
                tickers |-> GetOrComputeOf(tk, g, symbol, key, value, now).tickers,
                out |-> LatestOf(GetOrComputeOf(tk, g, symbol, key, value, now).tickers,
                                 symbol, key)]
          [] op = "dump" ->
               [globalIntervalMs |-> g, tickers |-> tk, out |-> << DumpOf(tk, g) >>]

\* the same call on both instances; clock and twinClock are what Date.now()
\* reads in the first and in the second instance
TwinCall(op, symbol, key, value, intervalMs, nowArg, clock, twinClock) ==
    LET first  == StoreCall([globalIntervalMs |-> globalIntervalMs, tickers |-> tickers],
                            op, symbol, key, value, intervalMs, nowArg, clock)
        second == StoreCall(twin[1], op, symbol, key, value, intervalMs, nowArg, twinClock)
    IN  /\ Len(log) < MaxTwinCalls
        /\ globalIntervalMs' = first.globalIntervalMs
        /\ tickers' = first.tickers
        /\ ret' = Call(op, <<symbol, key, value, intervalMs, nowArg>>, first.out)
        /\ computeCalls' = computeCalls
                             + (IF op = "getOrCompute"
                                THEN GetOrComputeOf(tickers, globalIntervalMs, symbol, key, value,
                                                    IF nowArg # << >> THEN nowArg[1] ELSE clock
                                                   ).computed
                                ELSE 0)
        /\ twin' = << second >>
        /\ log' = Append(log, IF nowArg = << >> THEN "Date.now()" ELSE "now")
        /\ UNCHANGED <<heap, held, pending, watchlists>>

InitTwin ==
    /\ globalIntervalMs \in ConstructorArgs
    /\ tickers = EmptyMap
    /\ computeCalls = 0
    /\ ret = Call("new", << >>, << >>)
    /\ log = << >>
    /\ heap = << >>
    /\ held = {}
    /\ pending = << >>
    /\ twin = << [globalIntervalMs |-> globalIntervalMs, tickers |-> EmptyMap, out |-> << >>] >>
    /\ watchlists = << >>

NextTwin ==
    \/ TwinCall("setGlobalRefreshInterval", AsyncSymbol, AsyncKey, 70, 1000, << 0 >>, 0, 0)
    \/ TwinCall("setTickerRefreshInterval", AsyncSymbol, AsyncKey, 70, 1000, << 0 >>, 0, 0)
    \/ TwinCall("getLatest", AsyncSymbol, AsyncKey, 70, 1000, << 0 >>, 0, 0)
    \/ TwinCall("getHistory", AsyncSymbol, AsyncKey, 70, 1000, << 0 >>, 0, 0)
    \/ TwinCall("dump", AsyncSymbol, AsyncKey, 70, 1000, << 0 >>, 0, 0)
    \/ \E nowArg \in TwinNowArgs, clock \in TwinClocks, twinClock \in TwinClocks :
         /\ nowArg # << >> => clock = 0 /\ twinClock = 0
         /\ TwinCall("shouldRefresh", AsyncSymbol, AsyncKey, 70, 1000, nowArg, clock, twinClock)
    \/ \E value \in TwinValues, nowArg \in TwinNowArgs, clock \in TwinClocks,
          twinClock \in TwinClocks :
         /\ nowArg # << >> => clock = 0 /\ twinClock = 0
         /\ TwinCall("upsert", AsyncSymbol, AsyncKey, value, 1000, nowArg, clock, twinClock)
    \/ \E value \in TwinValues, nowArg \in TwinNowArgs, clock \in TwinClocks,
          twinClock \in TwinClocks :
         /\ nowArg # << >> => clock = 0 /\ twinClock = 0
         /\ TwinCall("getOrCompute", AsyncSymbol, AsyncKey, value, 1000, nowArg, clock, twinClock)

SpecTwin == InitTwin /\ [][NextTwin]_vars

(* C30: the store is deterministic and never samples a clock of its own:   *)
(* two store instances constructed with the same interval and given the     *)
(* same sequence of operations with the same arguments (symbols, keys,      *)
(* values, now / computedAt) return identical results at every step and end *)
(* in identical states.                                                     *)
C30_TwinStoresAgree ==
    twin # << >> =>
      /\ twin[1].out = ret.out
      /\ twin[1].tickers = tickers
      /\ twin[1].globalIntervalMs = globalIntervalMs

\* the same for the runs in which every call was given its now / computedAt
C30_TwinStoresAgreeWhenTimeIsPassed ==
    (twin # << >> /\ \A n \in 1..Len(log) : log[n] = "now") =>
      /\ twin[1].out = ret.out
      /\ twin[1].tickers = tickers
      /\ twin[1].globalIntervalMs = globalIntervalMs

----------------------------------------------------------------------------
(***************************************************************************)
(* Watchlist alerts (src/lib/trading.ts).  Prices and thresholds are in    *)
(* hundredths, the unit of toFixed(2).  The dashboard holds one watchlist  *)
(* with one ticker, as the fixture of the trading tests does; what         *)
(* Math.random() contributes to a tick is the input priceDelta.  The       *)
(* ticker's `changes` are random numbers no alert reads and are left out   *)
(* of the ticker record.  log records the events: a tick with the price    *)
(* it drew, the alerts it returned and the alert ids it notified; a        *)
(* toggle or an addition with the alert id.                                *)
(***************************************************************************)

\* how many events (additions, toggles, ticks) a run has
MaxAlertEvents == 5

\* how many alerts the ticker carries at most
MaxAlerts == 2

\* the price moves a tick may draw, the directions and thresholds a user may enter
PriceDeltas == {-50, 0, 50}
Directions == {"above", "below"}
Thresholds == {9980, 10020}
\* the ids uid() may return, which are also the ids a user may toggle
AlertIds == {"al-1", "al-2", "al-3"}

Abs(x) == IF x < 0 THEN -x ELSE x

\* trading.ts:143  addAlert; id is what uid() returned
AddAlert(ticker, id, direction, threshold) ==
    [ticker EXCEPT !.alerts = Append(@, [id |-> id, direction |-> direction,
                                         threshold |-> threshold, enabled |-> TRUE,
                                         triggered |-> FALSE])]

ToggleAlertKeepTriggered(ticker, alertId) ==
    [ticker EXCEPT !.alerts =
        [n \in 1..Len(@) |->
            IF @[n].id = alertId THEN [@[n] EXCEPT !.enabled = ~@] ELSE @[n]]]

\* trading.ts:166  toggleAlert
ToggleAlert(ticker, alertId) ==
    [ticker EXCEPT !.alerts =
        [n \in 1..Len(@) |->
            IF @[n].id = alertId
            THEN [@[n] EXCEPT !.enabled = ~@, !.triggered = FALSE]
            ELSE @[n]]]

\* trading.ts:237  const hit = ...
Hit(alert, currentPrice) ==
    IF alert.direction = "above"
    THEN currentPrice >= alert.threshold
    ELSE currentPrice <= alert.threshold

\* trading.ts:173  buildNotification (id, message, createdAt and read carry no alert state)
BuildNotification(watchlist, ticker, alert, currentPrice) ==
    [watchlistName |-> watchlist.name, tickerSymbol |-> ticker.symbol, alertId |-> alert.id,
     direction |-> alert.direction, threshold |-> alert.threshold,
     currentPrice |-> currentPrice]

\* trading.ts:211  |priceDelta| is at most half of max(0.35, 1.25% of the price)
PriceDeltaBound(ticker) == Max(35, (ticker.currentPrice * 125) \div 10000) \div 2

\* trading.ts:212  Number(Math.max(0.2, ticker.currentPrice + priceDelta).toFixed(2))
NextCurrentPrice(ticker, priceDelta) == Max(20, ticker.currentPrice + priceDelta)

TickAlertsKeepTriggered(alerts, currentPrice) ==
    alerts

\* trading.ts:235  the alerts a tick returns
TickAlerts(alerts, currentPrice) ==
    [n \in 1..Len(alerts) |->
        IF ~alerts[n].enabled
        THEN alerts[n]
        ELSE [alerts[n] EXCEPT !.triggered = Hit(alerts[n], currentPrice)]]

\* the alerts of a ticker that push a notification at currentPrice, in order
Notifying(ticker, currentPrice) ==
    SelectSeq(ticker.alerts,
              LAMBDA alert : alert.enabled /\ Hit(alert, currentPrice) /\ ~alert.triggered)

TickNotificationsEveryHit(watchlist, ticker, currentPrice) ==
    LET hits == SelectSeq(ticker.alerts,
                          LAMBDA alert : alert.enabled /\ Hit(alert, currentPrice))
    IN  [n \in 1..Len(hits) |-> BuildNotification(watchlist, ticker, hits[n], currentPrice)]

\* trading.ts:240  the notifications a tick pushes for one ticker
TickNotifications(watchlist, ticker, currentPrice) ==
    LET due == Notifying(ticker, currentPrice)
    IN  [n \in 1..Len(due) |-> BuildNotification(watchlist, ticker, due[n], currentPrice)]

\* trading.ts:202  tickWatchlistsWithNotifications on one watchlist with one ticker
TickResultOf(wls, priceDelta) ==
    LET watchlist    == wls[1]
        ticker       == watchlist.tickers[1]
        currentPrice == NextCurrentPrice(ticker, priceDelta)
        nextTicker   == [ticker EXCEPT !.currentPrice = currentPrice,
                                       !.alerts = TickAlerts(ticker.alerts, currentPrice)]
    IN  [watchlists    |-> << [watchlist EXCEPT !.tickers = << nextTicker >>] >>,
         notifications |-> TickNotifications(watchlist, ticker, currentPrice)]

\* the ids of the alerts a list of notifications is about
NotifiedIds(notifications) == {notifications[n].alertId : n \in 1..Len(notifications)}

\* the dashboard's tick: it keeps the watchlists the tick returned
TickWatchlistsWithNotifications(priceDelta) ==
    LET result == TickResultOf(watchlists, priceDelta)
    IN  /\ Len(log) < MaxAlertEvents
        /\ Abs(priceDelta) <= PriceDeltaBound(watchlists[1].tickers[1])
        /\ watchlists' = result.watchlists
        /\ ret' = Call("tickWatchlistsWithNotifications", <<priceDelta>>, << result >>)
        /\ log' = Append(log, [op |-> "tick",
                               currentPrice |-> result.watchlists[1].tickers[1].currentPrice,
                               alerts |-> result.watchlists[1].tickers[1].alerts,
                               notified |-> NotifiedIds(result.notifications)])
        /\ UNCHANGED <<globalIntervalMs, tickers, computeCalls, heap, held, pending, twin>>

\* the dashboard toggles an alert of the ticker
ToggleAlertOfTicker(alertId) ==
    LET ticker == ToggleAlert(watchlists[1].tickers[1], alertId)
    IN  /\ Len(log) < MaxAlertEvents
        /\ watchlists' = << [watchlists[1] EXCEPT !.tickers = << ticker >>] >>
        /\ ret' = Call("toggleAlert", <<alertId>>, << ticker >>)
        /\ log' = Append(log, [op |-> "toggle", alertId |-> alertId])
        /\ UNCHANGED <<globalIntervalMs, tickers, computeCalls, heap, held, pending, twin>>

\* the dashboard adds an alert to the ticker; uid() gives an id no alert has yet
AddAlertToTicker(direction, threshold) ==
    LET alerts == watchlists[1].tickers[1].alerts
        unused == AlertIds \ {alerts[n].id : n \in 1..Len(alerts)}
        id     == CHOOSE fresh \in unused : TRUE
        ticker == AddAlert(watchlists[1].tickers[1], id, direction, threshold)
    IN  /\ Len(log) < MaxAlertEvents
        /\ Len(alerts) < MaxAlerts
        /\ unused # {}
        /\ watchlists' = << [watchlists[1] EXCEPT !.tickers = << ticker >>] >>
        /\ ret' = Call("addAlert", <<direction, threshold>>, << ticker >>)
        /\ log' = Append(log, [op |-> "add", alertId |-> id])
        /\ UNCHANGED <<globalIntervalMs, tickers, computeCalls, heap, held, pending, twin>>

\* the watchlist of the trading tests: AAPL at 100.00 with one alert above 100.20
InitAlerts ==
    /\ globalIntervalMs = DefaultGlobalIntervalMs
    /\ tickers = EmptyMap
    /\ computeCalls = 0
    /\ ret = Call("new", << >>, << >>)
    /\ log = << >>
    /\ heap = << >>
    /\ held = {}
    /\ pending = << >>
    /\ twin = << >>
    /\ watchlists = << [name |-> "Main List",
                        tickers |-> << [symbol |-> "AAPL", currentPrice |-> 10000,
                                        alerts |-> << [id |-> "al-1", direction |-> "above",
                                                       threshold |-> 10020, enabled |-> TRUE,
                                                       triggered |-> FALSE] >>] >>] >>

NextAlerts ==
    \/ \E priceDelta \in PriceDeltas : TickWatchlistsWithNotifications(priceDelta)
    \/ \E alertId \in AlertIds : ToggleAlertOfTicker(alertId)
    \/ \E direction \in Directions, threshold \in Thresholds :
         AddAlertToTicker(direction, threshold)

SpecAlerts == InitAlerts /\ [][NextAlerts]_vars

\* the alerts of the one ticker, and the alert with a given id
AlertsOf(wls) == wls[1].tickers[1].alerts
AlertIdsOf(wls) == {AlertsOf(wls)[n].id : n \in 1..Len(AlertsOf(wls))}
AlertById(wls, id) == AlertsOf(wls)[CHOOSE n \in 1..Len(AlertsOf(wls)) : AlertsOf(wls)[n].id = id]

\* how many of a list of notifications are about an alert
NotificationCount(notifications, id) ==
    Cardinality({n \in 1..Len(notifications) : notifications[n].alertId = id})

\* C31: a tick notifies an alert if and only if the alert is enabled, the new
\* price meets its condition and it was not triggered before the tick; it
\* notifies an alert at most once; and afterwards every enabled alert's
\* triggered flag says whether its condition is met at the new price
C31_TickNotifiesOnRisingEdge ==
    [][ret'.op = "tickWatchlistsWithNotifications" /\ ret' # ret =>
         LET result       == ret'.out[1]
             currentPrice == result.watchlists[1].tickers[1].currentPrice
         IN  \A id \in AlertIdsOf(watchlists) :
               LET before == AlertById(watchlists, id)
                   after  == AlertById(result.watchlists, id)
                   met    == IF before.direction = "above"
                             THEN currentPrice >= before.threshold
                             ELSE currentPrice <= before.threshold
               IN  /\ (id \in NotifiedIds(result.notifications))
                        <=> (before.enabled /\ met /\ ~before.triggered)
                   /\ NotificationCount(result.notifications, id) <= 1
                   /\ after.enabled => (after.triggered <=> met)
    ]_vars

C31_Witness ==
    /\ ret.op = "tickWatchlistsWithNotifications"
    /\ Len(ret.out[1].notifications) = 1
    /\ Len(log) >= 2
    /\ log[Len(log) - 1].op = "tick"
    /\ log[Len(log) - 1].notified = {}

\* the ticks among the events so far, and what a tick says about an alert
TickEvents == {j \in 1..Len(log) : log[j].op = "tick"}
AlertAtTick(j, id) == log[j].alerts[CHOOSE n \in 1..Len(log[j].alerts) : log[j].alerts[n].id = id]
IdsAtTick(j) == {log[j].alerts[n].id : n \in 1..Len(log[j].alerts)}
MetAtTick(j, id) ==
    IF AlertAtTick(j, id).direction = "above"
    THEN log[j].currentPrice >= AlertAtTick(j, id).threshold
    ELSE log[j].currentPrice <= AlertAtTick(j, id).threshold

\* the events before event j that concern an alert (a tick, its toggle, its addition),
\* and the last of them
EventsBefore(j, id) ==
    {i \in 1..(j - 1) : IF log[i].op = "tick" THEN id \in IdsAtTick(i) ELSE log[i].alertId = id}
LastEventBefore(j, id) == CHOOSE i \in EventsBefore(j, id) : \A k \in EventsBefore(j, id) : k <= i

\* C32: notifications are not duplicated: a tick notifies an alert exactly
\* when the alert is enabled, its condition is met, and the event before it
\* was not a tick at which the condition was met too (so it was a tick at
\* which the condition was not met, a toggle, the alert's addition, or there
\* was no event yet); two
\* notifications of one alert always have such an event between them
C32_NoDuplicateNotifications ==
    \A j \in TickEvents : \A id \in IdsAtTick(j) :
      /\ (id \in log[j].notified)
           <=> /\ AlertAtTick(j, id).enabled
               /\ MetAtTick(j, id)
               /\ ~(/\ EventsBefore(j, id) # {}
                    /\ log[LastEventBefore(j, id)].op = "tick"
                    /\ MetAtTick(LastEventBefore(j, id), id))
      /\ \A i \in TickEvents :
           (i < j /\ id \in log[i].notified /\ id \in log[j].notified) =>
             \E k \in (i + 1)..(j - 1) :
               \/ log[k].op = "tick" /\ ~MetAtTick(k, id)
               \/ log[k].op = "toggle" /\ log[k].alertId = id

C32_Witness ==
    \E i, j, k, l \in TickEvents : \E id \in IdsAtTick(i) :
      /\ i < j /\ j < k /\ k < l
      /\ id \in log[i].notified
      /\ MetAtTick(j, id) /\ id \notin log[j].notified
      /\ ~MetAtTick(k, id)
      /\ id \in log[l].notified

\* C40: a tick returns every disabled alert unchanged and never notifies it,
\* whatever the price; toggleAlert flips enabled and clears triggered for
\* exactly the alert with the given id and leaves every other alert as it
\* was; so a tick that follows the re-enabling of an alert whose condition
\* is met notifies it again
C40_DisabledAlertsAndToggle ==
    [][/\ (ret'.op = "tickWatchlistsWithNotifications" /\ ret' # ret) =>
            \A n \in 1..Len(AlertsOf(watchlists)) :
              LET before == AlertsOf(watchlists)[n]
                  result == ret'.out[1]
                  price  == result.watchlists[1].tickers[1].currentPrice
              IN  /\ ~before.enabled =>
                        /\ AlertsOf(result.watchlists)[n] = before
                        /\ before.id \notin NotifiedIds(result.notifications)
                  /\ (/\ before.enabled
                      /\ log # << >>
                      /\ log[Len(log)].op = "toggle"
                      /\ log[Len(log)].alertId = before.id
                      /\ IF before.direction = "above"
                         THEN price >= before.threshold
                         ELSE price <= before.threshold)
                       => before.id \in NotifiedIds(result.notifications)
       /\ (ret'.op = "toggleAlert" /\ ret' # ret) =>
            /\ Len(AlertsOf(watchlists')) = Len(AlertsOf(watchlists))
            /\ watchlists'[1].tickers[1].currentPrice = watchlists[1].tickers[1].currentPrice
            /\ \A n \in 1..Len(AlertsOf(watchlists)) :
                 LET before == AlertsOf(watchlists)[n]
                     after  == AlertsOf(watchlists')[n]
                 IN  IF before.id = ret'.args[1]
                     THEN /\ after.enabled = ~before.enabled
                          /\ after.triggered = FALSE
                          /\ after.id = before.id
                          /\ after.direction = before.direction
                          /\ after.threshold = before.threshold
                     ELSE after = before
    ]_vars

C40_Witness ==
    /\ Len(log) = 5
    /\ log[1].op = "tick" /\ log[1].notified = {"al-1"}
    /\ log[2].op = "toggle" /\ log[2].alertId = "al-1"
    /\ log[3].op = "tick" /\ log[3].notified = {} /\ log[3].currentPrice >= 10020
    /\ log[4].op = "toggle" /\ log[4].alertId = "al-1"
    /\ log[5].op = "tick" /\ log[5].notified = {"al-1"}

----------------------------------------------------------------------------
\* the id a request for id resolves to among models: id itself when a model
\* has it, the first model's id otherwise
ResolvedId(models, id) ==
    IF \E n \in 1..Len(models) : models[n].id = id THEN id ELSE models[1].id

\* C33: an unknown, null or missing fundamental or entry model id selects the
\* first registered model, and the cache key is built from the id of the
\* model selected: a cached build with such an id leaves the store and
\* returns the report exactly as the build with the first model's id would,
\* reading and writing the slots 'fundamental:<first id>' and
\* 'entry:<first id>', and the store never has a slot named after an id
\* that no registered model has
C33_UnknownIdUsesFirstModelSlot ==
    [][(ret'.op = "buildTickerReportCached" /\ ret' # ret) =>
         LET args    == ret'.args
             report  == ret'.out[1]
             context == GetAnalysisContext(args[3])
             fid     == ResolvedId(context.fundamentalModels, args[4])
             eid     == ResolvedId(context.entryPointModels, args[5])
             byId    == CachedReportOf(tickers, globalIntervalMs, args[1], args[2], args[3],
                                       fid, eid, args[6])
             known   == {"target-consensus", "sentiment"}
                          \cup {"fundamental:" \o context.fundamentalModels[n].id :
                                  n \in 1..Len(context.fundamentalModels)}
                          \cup {"entry:" \o context.entryPointModels[n].id :
                                  n \in 1..Len(context.entryPointModels)}
         IN  /\ tickers' = byId.tickers
             /\ report = byId.report
             /\ (\A n \in 1..Len(context.fundamentalModels) :
                   context.fundamentalModels[n].id # args[4])
                  => /\ fid = context.fundamentalModels[1].id
                     /\ report.fundamental.model = context.fundamentalModels[1].name
                     /\ report.fundamental
                          = tickers'[report.symbol].latest["fundamental:" \o fid].value
             /\ (\A n \in 1..Len(context.entryPointModels) :
                   context.entryPointModels[n].id # args[5])
                  => /\ eid = context.entryPointModels[1].id
                     /\ report.entryPlan.model = context.entryPointModels[1].name
                     /\ report.entryPlan
                          = tickers'[report.symbol].latest["entry:" \o eid].value
             /\ \A sym \in DOMAIN tickers' :
                  /\ DOMAIN tickers'[sym].latest \subseteq known
                  /\ DOMAIN tickers'[sym].history \subseteq known
                  /\ DOMAIN tickers'[sym].intervals \subseteq known
    ]_vars

\* a build with a missing fundamental id was served the summary that a build
\* with the id 'dcf-core' had cached for another price, and a build with an
\* unknown entry id wrote the slot of the first entry model
C33_Witness ==
    /\ ret.op = "buildTickerReportCached"
    /\ ret.args[4] = ""
    /\ ret.args[5] = "no-such-model"
    /\ ret.out[1].fundamental.model = "DCF Core"
    /\ ret.out[1].fundamental.price # ret.args[2]
    /\ Len(tickers[ret.out[1].symbol].history["fundamental:dcf-core"]) = 1
    /\ ret.out[1].entryPlan.model = "Swing Structure"
    /\ Len(tickers[ret.out[1].symbol].history["entry:swing-structure"]) = 1
    /\ ret.out[1].entryPlan.price = ret.args[2]
    /\ "entry:momentum-breakout" \in DOMAIN tickers[ret.out[1].symbol].history

----------------------------------------------------------------------------
\* a store (by value) in which every slot has a latest record exactly when
\* its history is non-empty, the record being the last history entry
\* without its version
LatestMatchesHistory(tk) ==
    \A symbol \in DOMAIN tk :
      LET state == tk[symbol]
      IN  /\ \A key \in DOMAIN state.history :
               state.history[key] # << >> => key \in DOMAIN state.latest
          /\ \A key \in DOMAIN state.latest :
               /\ key \in DOMAIN state.history
               /\ state.history[key] # << >>
               /\ state.latest[key].key = key
               /\ LET last == state.history[key][Len(state.history[key])]
                  IN  /\ state.latest[key].key = last.key
                      /\ state.latest[key].value = last.value
                      /\ state.latest[key].computedAt = last.computedAt

\* C34: in every reachable state and for every (symbol, key) there is at
\* most one latest record, a latest record exists exactly when the slot's
\* history is non-empty, and its key, value and computedAt equal those of
\* the last history entry; here with callers that write to the objects the
\* store handed out
C34_LatestIsLastHistoryEntry ==
    LatestMatchesHistory(ViewOf(tickers, heap))

\* the same for callers that use the store's methods only
C34_LatestIsLastHistoryEntryByValue ==
    LatestMatchesHistory(tickers)

\* C35: slots are independent: upsert, getOrCompute and
\* setTickerRefreshInterval on (symbol, key) leave the latest record, the
\* history with its version numbers and the interval override of every
\* other slot as they were, and leave the global interval as it was;
\* setGlobalRefreshInterval changes no latest record, no history and no
\* override
C35_SlotsAreIndependent ==
    [][/\ (ret' # ret /\ ret'.op \in {"upsert", "getOrCompute", "setTickerRefreshInterval"}) =>
            /\ globalIntervalMs' = globalIntervalMs
            /\ \A slot \in Slots :
                 (ToUpperCase(slot[1]) # ToUpperCase(ret'.args[1]) \/ slot[2] # ret'.args[2]) =>
                   /\ SlotLatest(tickers', slot[1], slot[2])
                        = SlotLatest(tickers, slot[1], slot[2])
                   /\ SlotHistory(tickers', slot[1], slot[2])
                        = SlotHistory(tickers, slot[1], slot[2])
                   /\ SlotOverride(tickers', slot[1], slot[2])
                        = SlotOverride(tickers, slot[1], slot[2])
       /\ (ret' # ret /\ ret'.op = "setGlobalRefreshInterval") =>
            \A slot \in Slots :
              /\ SlotLatest(tickers', slot[1], slot[2]) = SlotLatest(tickers, slot[1], slot[2])
              /\ SlotHistory(tickers', slot[1], slot[2]) = SlotHistory(tickers, slot[1], slot[2])
              /\ SlotOverride(tickers', slot[1], slot[2]) = SlotOverride(tickers, slot[1], slot[2])
    ]_vars

\* a slot was written while another slot of the same symbol held a record
\* and an override
C35_Witness ==
    /\ ret.op \in {"upsert", "getOrCompute"}
    /\ SlotLatest(tickers, ret.args[1], ret.args[2]) # << >>
    /\ \E key \in Keys :
         /\ key # ret.args[2]
         /\ SlotOverride(tickers, ret.args[1], key) # << >>

----------------------------------------------------------------------------
(* getOrComputeAsync calls on one slot whose now never decreases from one   *)
(* call to the next, with producers that settle in any order.               *)

\* producers invoked and records written under SpecAsyncOrdered
MaxOrderedProducers == 4

OrderedTimes == {0, 1000, 2000}

\* the now of the call issued last: no earlier call had a larger one
LastIssuedNow ==
    LET nows == {pending[n].now : n \in 1..Len(pending)}
                  \cup {HistoryOf(tickers, AsyncSymbol, AsyncKey)[n].computedAt :
                          n \in 1..Len(HistoryOf(tickers, AsyncSymbol, AsyncKey))}
                  \cup (IF ret.op = "getOrComputeAsync" THEN {ret.args[3]} ELSE {})
    IN  IF nows = {} THEN 0 ELSE CHOOSE t \in nows : \A u \in nows : u <= t

NextAsyncOrdered ==
    \/ \E now \in OrderedTimes :
         /\ now >= LastIssuedNow
         /\ ShouldRefreshOf(tickers, globalIntervalMs, AsyncSymbol, AsyncKey, now)
              => AsyncLoad < MaxOrderedProducers
         /\ GetOrComputeAsync(AsyncSymbol, AsyncKey, now)
    \/ \E n \in 1..Len(pending) : ResumeGetOrComputeAsync(n)

SpecAsyncOrdered == InitAsync /\ [][NextAsyncOrdered]_vars

----------------------------------------------------------------------------
(* Compute functions that throw and producers that reject                   *)
(* (metadata-storage.ts:87-99).  `this.upsert(symbol, key, compute(), now)` *)
(* evaluates compute() before upsert is entered, and `await compute()`      *)
(* rethrows the producer's rejection in front of the upsert: the only       *)
(* store code a failing call has run is shouldRefresh.                      *)

\* compute functions and producers invoked under SpecFail
MaxFailCalls == 4

\* getOrCompute on a stale slot whose compute function throws
GetOrComputeThrows(symbol, key, now) ==
    /\ ShouldRefreshOf(tickers, globalIntervalMs, symbol, key, now)
    /\ computeCalls' = computeCalls + 1
    /\ tickers' = EnsureTickerState(tickers, symbol)
    /\ ret' = Call("getOrCompute.throws", <<symbol, key, now>>, << "throws" >>)
    /\ UNCHANGED <<globalIntervalMs, log, heap, held, pending, twin, watchlists>>

\* a failure that is cached: the slot is stamped with the failing call's now
RejectGetOrComputeAsyncStoresFailure(n) ==
    /\ n \in 1..Len(pending)
    /\ tickers' = UpsertStore(tickers, pending[n].symbol, pending[n].key, "throws", pending[n].now)
    /\ pending' = [ m \in 1..(Len(pending) - 1) |->
                      IF m < n THEN pending[m] ELSE pending[m + 1] ]
    /\ ret' = Call("getOrComputeAsync.rejected",
                   <<pending[n].symbol, pending[n].key, pending[n].now>>, << "throws" >>)
    /\ UNCHANGED <<globalIntervalMs, computeCalls, log, heap, held, twin, watchlists>>

\* the n-th suspended call resumes with its producer's rejection
RejectGetOrComputeAsync(n) ==
    /\ n \in 1..Len(pending)
    /\ pending' = [ m \in 1..(Len(pending) - 1) |->
                      IF m < n THEN pending[m] ELSE pending[m + 1] ]
    /\ ret' = Call("getOrComputeAsync.rejected",
                   <<pending[n].symbol, pending[n].key, pending[n].now>>, << "throws" >>)
    /\ UNCHANGED <<globalIntervalMs, tickers, computeCalls, log, heap, held, twin, watchlists>>

NextFail ==
    \/ \E now \in AsyncTimes :
         /\ ShouldRefreshOf(tickers, globalIntervalMs, AsyncSymbol, AsyncKey, now)
              => computeCalls < MaxFailCalls
         /\ GetOrComputeAsync(AsyncSymbol, AsyncKey, now)
    \/ \E n \in 1..Len(pending) : ResumeGetOrComputeAsync(n)
    \/ \E n \in 1..Len(pending) : RejectGetOrComputeAsync(n)
    \/ /\ \E now \in AsyncTimes :
            /\ ShouldRefreshOf(tickers, globalIntervalMs, AsyncSymbol, AsyncKey, now)
                 => computeCalls < MaxFailCalls
            /\ GetOrCompute(AsyncSymbol, AsyncKey, now)
       /\ UNCHANGED <<log, refs>>
    \/ \E now \in AsyncTimes :
         /\ computeCalls < MaxFailCalls
         /\ GetOrComputeThrows(AsyncSymbol, AsyncKey, now)

SpecFail == InitAsync /\ [][NextFail]_vars

\* the step is a call that failed: its compute function threw or its producer rejected
FailureOps == {"getOrCompute.throws", "getOrComputeAsync.rejected"}

----------------------------------------------------------------------------
\* the report-building calls that go through the cache, and the now of one
CachedBuildOps ==
    {"buildTickerReportCached", "buildTickerReportLive", "buildTickerReportWithContext"}

BuildNow(call) ==
    IF call.op = "buildTickerReportWithContext" THEN call.args[5] ELSE call.args[6]

\* the metric slots a build with these model ids uses
BuildKeys(fundamentalModelId, entryModelId) ==
    {"target-consensus", "sentiment",
     "fundamental:" \o Selected(FundamentalModels, fundamentalModelId).id,
     "entry:" \o Selected(EntryPointModels, entryModelId).id}

\* C37: a single report-building call (buildTickerReportCached,
\* buildTickerReportLive or buildTickerReportWithContext) appends at most
\* one history entry to each metric slot of the symbol, and appends one to
\* a metric it uses exactly when that metric was due at the call, so that
\* after k calls a metric's history length is the number of calls at which
\* it was due
C37_OneHistoryEntryPerBuild ==
    [][(ret'.op \in CachedBuildOps /\ log' # log) =>
         /\ \A key \in MetricKeys :
              Len(SlotHistory(tickers', ret'.args[1], key))
                <= Len(SlotHistory(tickers, ret'.args[1], key)) + 1
         /\ \A key \in BuildKeys(ret'.args[CASE ret'.op = "buildTickerReportCached" -> 4
                                              [] ret'.op = "buildTickerReportLive" -> 2
                                              [] OTHER -> 3],
                                 ret'.args[CASE ret'.op = "buildTickerReportCached" -> 5
                                              [] ret'.op = "buildTickerReportLive" -> 3
                                              [] OTHER -> 4]) :
              Len(SlotHistory(tickers', ret'.args[1], key))
                = Len(SlotHistory(tickers, ret'.args[1], key))
                    + (IF SlotDue(tickers, globalIntervalMs, ret'.args[1], key, BuildNow(ret'))
                       THEN 1 ELSE 0)
    ]_vars

----------------------------------------------------------------------------
(* Cached builds of one symbol under either analysis context (registry:     *)
(* buildTickerReportCached with opts.contextId).  log records the context   *)
(* id each build was asked for; null is "".                                 *)

\* builds made under SpecContexts
MaxContextBuilds == 2

NextContexts ==
    \/ /\ Len(log) < MaxContextBuilds
       /\ \E price \in { 180, 190 }, c \in { "default_mock", "default_live", "" },
             now \in { 1000, 2000, 901000 } :
            /\ BuildTickerReportCached(<<"a", "a", "p", "l">>, price, c, "dcf-core", "", now)
            /\ log' = Append(log, c)
       /\ UNCHANGED refs
    \/ SetTickerRefreshInterval(<<"a", "a", "p", "l">>, "sentiment", 1000) /\ UNCHANGED <<log, refs>>

SpecContexts == InitReport /\ [][NextContexts]_vars

\* contexts: the ids of the registered analysis contexts
ContextIds == {AnalysisContexts[n].id : n \in 1..Len(AnalysisContexts)}

====
